---------------------------- MODULE Spec2Model ----------------------------
(***************************************************************************)
(* Team Glicko-2: the rating-update engine (TeamGlicko2System,             *)
(* PlayerRating, TeamRatingAggregator, PerformanceWeighting) and the team  *)
(* balancer (TeamBalancer).                                                *)
(*                                                                         *)
(* The C++ code computes in IEEE doubles.  The model computes in signed    *)
(* fixed point: a real x is the integer round(x * FP), FP = 10^6.  Every   *)
(* product, quotient, square root, exponential and logarithm is rounded to *)
(* a multiple of 1/FP, so conversions and averages lose precision here as  *)
(* they do in the code, only earlier.  Intermediates stay below 2^31, the  *)
(* width of the model checker's integers.                                  *)
(***************************************************************************)
EXTENDS Integers, Sequences, FiniteSets, TLC

(***************************************************************************)
(* Fixed-point arithmetic                                                  *)
(***************************************************************************)
FP == 1000 * 1000
Limb == 10 * 100
HalfFP == FP \div 2
DivWide == 200 * FP

Abs(x) == IF x < 0 THEN -x ELSE x
Min(a, b) == IF a < b THEN a ELSE b
Max(a, b) == IF a > b THEN a ELSE b

\* a local variable of the code: value is computed once and named in Body
With(value, Body(_)) == Body(value)

\* round(a * b / FP) for a, b >= 0, by limbs of 1000 so that no partial
\* product exceeds 2^31.
MulNat(a, b) ==
    LET ah == a \div Limb
        al == a % Limb
        bh == b \div Limb
        bl == b % Limb
        lo == al * bl
        mid == ah * bl + al * bh + (lo \div Limb)
        frac == (mid % Limb) * Limb + (lo % Limb)
    IN  ah * bh + (mid \div Limb) + (IF frac >= HalfFP THEN 1 ELSE 0)

\* the double product a * b
Mul(a, b) ==
    IF a = 0 \/ b = 0 THEN 0
    ELSE IF (a < 0) = (b < 0) THEN MulNat(Abs(a), Abs(b))
    ELSE -MulNat(Abs(a), Abs(b))

\* round(a * FP / b) for a >= 0, b > 0, b <= DivWide: long division, one
\* decimal digit of the quotient at a time.
DivDigits(a, b) ==
    LET q0 == a \div b
        r0 == a % b
        q1 == (r0 * 10) \div b
        r1 == (r0 * 10) % b
        q2 == (r1 * 10) \div b
        r2 == (r1 * 10) % b
        q3 == (r2 * 10) \div b
        r3 == (r2 * 10) % b
        q4 == (r3 * 10) \div b
        r4 == (r3 * 10) % b
        q5 == (r4 * 10) \div b
        r5 == (r4 * 10) % b
        q6 == (r5 * 10) \div b
        r6 == (r5 * 10) % b
    IN  q0 * FP + q1 * 100000 + q2 * 10000 + q3 * 1000 + q4 * 100 + q5 * 10 + q6
        + (IF 2 * r6 >= b THEN 1 ELSE 0)

DivNat(a, b) ==
    IF b > DivWide THEN DivDigits(a \div 10, b \div 10) ELSE DivDigits(a, b)

\* the double quotient a / b, b # 0
Div(a, b) ==
    IF a = 0 THEN 0
    ELSE IF (a < 0) = (b < 0) THEN DivNat(Abs(a), Abs(b))
    ELSE -DivNat(Abs(a), Abs(b))


\* a / n for an integer count n > 0 (sum / size), rounded to nearest
DivInt(a, n) ==
    LET q == Abs(a) \div n
        r == Abs(a) % n
        m == q + (IF 2 * r >= n THEN 1 ELSE 0)
    IN  IF a < 0 THEN -m ELSE m

\* floor(sqrt(n)) of a natural number, Newton's iteration from above
RECURSIVE ISqrtIter(_, _)
ISqrtIter(n, r) ==
    LET r2 == (r + (n \div r)) \div 2
    IN  IF r2 >= r THEN r ELSE ISqrtIter(n, r2)

ISqrt(n) == IF n <= 0 THEN 0 ELSE ISqrtIter(n, Min(n, 46341))

\* std::sqrt(a): Newton's iteration on r * r = a * FP from above
RECURSIVE SqrtIter(_, _)
SqrtIter(a, r) ==
    LET r2 == (r + DivNat(a, r)) \div 2
    IN  IF r2 >= r THEN r ELSE SqrtIter(a, r2)

Sqrt(a) == IF a <= 0 THEN 0 ELSE SqrtIter(a, (ISqrt(a) + 1) * Limb)

\* sqrt of a value held at scale 1/S (centi-points: S = RP), S <= 1000
RECURSIVE SqrtScaledIter(_, _, _)
SqrtScaledIter(a, S, r) ==
    LET r2 == (r + (a \div r) * S + (((a % r) * S) \div r)) \div 2
    IN  IF r2 >= r THEN r ELSE SqrtScaledIter(a, S, r2)

SqrtScaled(a, S) == IF a <= 0 THEN 0 ELSE SqrtScaledIter(a, S, (ISqrt(a) + 1) * (ISqrt(S) + 1))

\* e and the Taylor series of exp on [0, 1)
EulerE == 2718282

RECURSIVE ExpSeries(_, _, _, _)
ExpSeries(f, k, term, sum) ==
    LET t == DivInt(MulNat(term, f), k)
    IN  IF t = 0 THEN sum ELSE ExpSeries(f, k + 1, t, sum + t)

RECURSIVE ExpShift(_, _)
ExpShift(i, acc) ==
    IF i = 0 \/ acc = 0 THEN acc
    ELSE IF i > 0 THEN ExpShift(i - 1, MulNat(acc, EulerE))
    ELSE ExpShift(i + 1, DivNat(acc, EulerE))

\* std::exp(x) = e^floor(x) * e^(x - floor(x))
Exp(x) ==
    LET i == IF x >= 0 THEN x \div FP ELSE -((-x + FP - 1) \div FP)
        f == x - i * FP
    IN  ExpShift(i, ExpSeries(f, 1, FP, FP))

\* std::log(x), x > 0: x = m * e^k with 1 <= m < e, ln m = 2 atanh((m-1)/(m+1))
RECURSIVE LogNormalize(_, _)
LogNormalize(m, k) ==
    IF m >= EulerE THEN LogNormalize(DivNat(m, EulerE), k + 1)
    ELSE IF m < FP THEN LogNormalize(MulNat(m, EulerE), k - 1)
    ELSE <<m, k>>

RECURSIVE AtanhSeries(_, _, _, _)
AtanhSeries(z2, n, pow, sum) ==
    LET p == MulNat(pow, z2)
        t == DivInt(p, n)
    IN  IF t = 0 THEN sum ELSE AtanhSeries(z2, n + 2, p, sum + t)

Log(x) ==
    LET mk == LogNormalize(x, 0)
        z == DivNat(mk[1] - FP, mk[1] + FP)
    IN  mk[2] * FP + 2 * AtanhSeries(MulNat(z, z), 3, z, z)

(***************************************************************************)
(* Configuration (TeamGlicko2Config.h).  Glicko-2 scale values, z-scores,  *)
(* weights and factors are held at scale 1/FP; Glicko-1 scale values       *)
(* (rating, RD, team strength) are held in centi-points, scale 1/RP.       *)
(***************************************************************************)
RP == 10 * 10
ToFP == FP \div RP

kDefaultRating == 1400 * RP
kDefaultRD == 350 * RP
kDefaultVolatility == 60000
kLambda == 800000
kScale == 173717800
kTau == 500000
kConvergence == 1
kBeta == 200000
kScaleMin == 500000
kScaleMax == 1500000
kEpsilon == 1
kEnableRatingClamp == TRUE
kMaxRatingChange == 1730000
kWinScore == FP
kLossScore == 0
kDrawScore == FP \div 2
kPerfTargetWindow == 10 * FP
kPerfToRating == 80
kRDScaleConstant == 80 * RP
kMaxRD == kDefaultRD
kDaysPerRatingPeriod == 7 * FP
kMinRoundsForActivity == 3
kMaxPerfZScore == 3 * FP
M_PI == 3141593

(***************************************************************************)
(* PlayerRating                                                            *)
(***************************************************************************)
\* PlayerRating::PlayerRating(rating, ratingDeviation, volatility)
PlayerRating(rating, ratingDeviation, volatility) ==
    [mu |-> Div((rating - kDefaultRating) * ToFP, kScale),
     phi |-> Div(ratingDeviation * ToFP, kScale),
     sigma |-> volatility,
     perfIndexEMA |-> 0,
     perfGames |-> 0]

GetRating(r) == DivInt(Mul(r.mu, kScale), ToFP) + kDefaultRating
GetRD(r) == DivInt(Mul(r.phi, kScale), ToFP)

\* mu = (rating - kDefaultRating) / kScale
SetRating(r, rating) == [r EXCEPT !.mu = Div((rating - kDefaultRating) * ToFP, kScale)]

\* phi = rd taken as it is, the division by kScale left out
SetRDUnscaled(r, rd) == [r EXCEPT !.phi = rd * ToFP]

\* phi = rd / kScale
SetRD(r, rd) == [r EXCEPT !.phi = Div(rd * ToFP, kScale)]

\* g(phi) = 1 / sqrt(1 + 3 phi^2 / pi^2)
GFunction(phi) ==
    Div(FP, Sqrt(FP + Div(3 * Mul(phi, phi), Mul(M_PI, M_PI))))

ComputeG(r) == GFunction(r.phi)

\* E = 1 / (1 + exp(-g(phi_opp) (mu - mu_opp)))
ComputeExpectedScore(r, muOpp, gOpp) ==
    LET exponent == -Mul(gOpp, r.mu - muOpp)
    IN  Div(FP, FP + Exp(exponent))

\* rating + clamp(perfIndexEMA * perfToRating, +-min(2 RD, 200))
ComputeRecentRating(r) ==
    LET boost == DivInt(r.perfIndexEMA * kPerfToRating, ToFP)
        maxBoost == Min(2 * GetRD(r), 200 * RP)
    IN  GetRating(r) + Max(-maxBoost, Min(boost, maxBoost))

\* r_g + 0.5 * RD^2 / (RD^2 + C^2) * (r_rec - r_g)
ComputeEffectiveRating(r) ==
    With(GetRating(r), LAMBDA r_g :
    With(GetRD(r), LAMBDA rd :
        LET rdSquared == rd * rd
            cSquared == kRDScaleConstant * kRDScaleConstant
            w_RD == Div(rdSquared, rdSquared + cSquared)
            w == w_RD \div 2
        IN  r_g + Mul(w, ComputeRecentRating(r) - r_g)))

\* the deviation cap of DecayForInactivity, kMaxRD / kScale
MaxPhi == Div(kMaxRD * ToFP, kScale)

\* the loop of DecayForInactivity: phi = sqrt(phi^2 + sigma^2) once per
\* period, cut off at MaxPhi, where the loop ends
RECURSIVE DecayLoop(_, _, _)
DecayLoop(phi, sigma, periods) ==
    IF periods <= 0 THEN phi
    ELSE With(Sqrt(Mul(phi, phi) + Mul(sigma, sigma)), LAMBDA widened :
             IF widened > MaxPhi THEN MaxPhi
             ELSE DecayLoop(widened, sigma, periods - 1))

\* a decay that does not look at the rounds played
DecayForInactivityAlways(r, roundsInPastDays, deltaDays, minRoundsForActivity, daysPerPeriod) ==
    With(Div(deltaDays, daysPerPeriod), LAMBDA inactivePeriods :
        IF inactivePeriods < FP THEN r
        ELSE [r EXCEPT !.phi = DecayLoop(r.phi, r.sigma, inactivePeriods \div FP)])

\* PlayerRating::DecayForInactivity: the rating as the call leaves it.
\* deltaDays and daysPerPeriod are days at scale 1/FP, daysPerPeriod > 0.
DecayForInactivity(r, roundsInPastDays, deltaDays, minRoundsForActivity, daysPerPeriod) ==
    IF roundsInPastDays >= minRoundsForActivity THEN r
    ELSE With(Div(deltaDays, daysPerPeriod), LAMBDA inactivePeriods :
             IF inactivePeriods < FP THEN r
             ELSE [r EXCEPT !.phi =
                      DecayLoop(r.phi, r.sigma, inactivePeriods \div FP)])

\* static_cast<int> of a double: the fraction is dropped
ToInt(x) == IF x >= 0 THEN x \div FP ELSE -((-x) \div FP)

\* the update with the steady-state weight from the second game on
UpdateRecentPerformanceSteady(r, matchPerfIndex, targetWindow) ==
    LET clipped == Max(-kMaxPerfZScore, Min(matchPerfIndex, kMaxPerfZScore))
        alpha == IF r.perfGames <= 0 THEN FP ELSE Div(2 * FP, targetWindow + FP)
    IN  [r EXCEPT !.perfIndexEMA = Mul(FP - alpha, r.perfIndexEMA) + Mul(alpha, clipped),
                  !.perfGames = r.perfGames + 1]

\* PlayerRating::UpdateRecentPerformance: the rating with matchPerfIndex
\* blended into perfIndexEMA.  targetWindow is a double, held at scale 1/FP.
UpdateRecentPerformance(r, matchPerfIndex, targetWindow) ==
    LET clipped == Max(-kMaxPerfZScore, Min(matchPerfIndex, kMaxPerfZScore))
        alpha == IF r.perfGames <= 0 THEN FP
                 ELSE IF r.perfGames < ToInt(targetWindow)
                      THEN Div(FP, (r.perfGames + 1) * FP)
                      ELSE Div(2 * FP, targetWindow + FP)
    IN  [r EXCEPT !.perfIndexEMA = Mul(FP - alpha, r.perfIndexEMA) + Mul(alpha, clipped),
                  !.perfGames = r.perfGames + 1]

(***************************************************************************)
(* TeamRatingAggregator                                                    *)
(***************************************************************************)
RECURSIVE SumOver(_, _, _)
SumOver(seq, F(_), i) ==
    IF i > Len(seq) THEN 0 ELSE F(seq[i]) + SumOver(seq, F, i + 1)

MuOf(r) == r.mu
PhiSquaredOf(r) == Mul(r.phi, r.phi)

ComputeTeamMu(team) ==
    IF Len(team) = 0 THEN 0 ELSE DivInt(SumOver(team, MuOf, 1), Len(team))

ComputeTeamPhi(team) ==
    IF Len(team) = 0 THEN 0
    ELSE Sqrt(DivInt(SumOver(team, PhiSquaredOf, 1), Len(team) * Len(team)))

ComputeTeamStats(team) ==
    IF Len(team) = 0 THEN [mu |-> 0, phi |-> 0, teamSize |-> 0]
    ELSE [mu |-> ComputeTeamMu(team), phi |-> ComputeTeamPhi(team),
          teamSize |-> Len(team)]

(***************************************************************************)
(* PerformanceWeighting                                                    *)
(***************************************************************************)
Identity(x) == x

ComputeMean(scores) ==
    IF Len(scores) = 0 THEN 0 ELSE DivInt(SumOver(scores, Identity, 1), Len(scores))

ComputeStdDev(scores, mean) ==
    IF Len(scores) = 0 THEN kEpsilon
    ELSE LET SqDiff(x) == Mul(x - mean, x - mean)
         IN  Sqrt(DivInt(SumOver(scores, SqDiff, 1), Len(scores))) + kEpsilon

ComputeZScore(score, mean, stddev) == Div(score - mean, stddev)

\* the zScore field of each PlayerWeight
ComputeZScores(performanceScores) ==
    With(ComputeMean(performanceScores), LAMBDA mean :
    With(ComputeStdDev(performanceScores, mean), LAMBDA stddev :
        [i \in 1..Len(performanceScores) |->
            ComputeZScore(performanceScores[i], mean, stddev)]))

\* the scaling factor taken from z alone, whatever the sign of deltaMu
ComputeScalingFactorUnsigned(zScore, deltaMu, beta, fMin, fMax) ==
    Min(fMax, Max(fMin, FP + Mul(beta, zScore)))

\* the modulation beta sign(deltaMu) z alone, without the 1 it is added to
ComputeScalingFactorOffset(zScore, deltaMu, beta, fMin, fMax) ==
    Min(fMax, Mul(beta, (IF deltaMu >= 0 THEN 1 ELSE -1) * zScore))

\* f = clamp(1 + beta sign(deltaMu) z, fMin, fMax)
ComputeScalingFactor(zScore, deltaMu, beta, fMin, fMax) ==
    LET signDeltaMu == IF deltaMu >= 0 THEN 1 ELSE -1
        f == FP + Mul(beta, signDeltaMu * zScore)
    IN  Min(fMax, Max(fMin, f))

(***************************************************************************)
(* TeamGlicko2System                                                       *)
(***************************************************************************)
\* iterations granted to each loop of UpdateVolatility before the model
\* reports that it did not converge
MaxIter == 40

\* v = 1 / (g^2 E (1 - E))
ComputeVariance(g, expectedScore) ==
    LET denominator == Mul(Mul(Mul(g, g), expectedScore), FP - expectedScore)
    IN  Div(FP, denominator)

\* Delta = v g (s - E)
ComputeDelta(v, g, score, expectedScore) ==
    Mul(Mul(v, g), score - expectedScore)

\* f(x) = e^x (Delta^2 - phi^2 - v - e^x) / (2 (phi^2 + v + e^x)^2) - (x - a) / tau^2
\* The quotient is taken as ((e^x / s) d) / (2 s), which keeps s^2 in range.
VolatilityFunction(x, deltaSquared, phiSquared, v, a, tauSquared) ==
    With(Exp(x), LAMBDA eX :
        LET d == deltaSquared - phiSquared - v - eX
            s == phiSquared + v + eX
        IN  Div(Mul(Div(eX, s), d), 2 * s) - Div(x - a, tauSquared))

\* while (f(B) < 0) B -= tau
RECURSIVE BracketDown(_, _, _, _, _, _, _)
BracketDown(B, deltaSquared, phiSquared, v, a, tauSquared, n) ==
    IF n >= MaxIter THEN [x |-> B, ok |-> FALSE, n |-> n]
    ELSE IF VolatilityFunction(B, deltaSquared, phiSquared, v, a, tauSquared) < 0
         THEN BracketDown(B - kTau, deltaSquared, phiSquared, v, a, tauSquared, n + 1)
         ELSE [x |-> B, ok |-> TRUE, n |-> n]

\* while (|B - A| > kConvergence) { C = A + (A - B) fA / (fB - fA); ... }
\* fB = fA makes C infinite or NaN in the code; every comparison with NaN is
\* false, so the loop is left with A as it stands.  fC = 0 sends the code
\* through the else branch with B = C and fB = 0, after which C stays at B
\* while fA is halved; a run that comes out of this comes out with A on C.
RECURSIVE Illinois(_, _, _, _, _, _, _, _, _, _)
Illinois(A, B, fA, fB, deltaSquared, phiSquared, v, a, tauSquared, n) ==
    IF Abs(B - A) <= kConvergence THEN [x |-> A, ok |-> TRUE, n |-> n]
    ELSE IF fB = fA THEN [x |-> A, ok |-> TRUE, n |-> n]
    ELSE IF n >= MaxIter THEN [x |-> A, ok |-> FALSE, n |-> n]
    ELSE With(A + Mul(A - B, Div(fA, fB - fA)), LAMBDA C :
         With(VolatilityFunction(C, deltaSquared, phiSquared, v, a, tauSquared), LAMBDA fC :
             IF fC = 0
             THEN [x |-> IF Abs(C - A) <= kConvergence THEN A ELSE C, ok |-> TRUE,
                   n |-> n + 1]
             ELSE IF (fC < 0 /\ fB > 0) \/ (fC > 0 /\ fB < 0)
             THEN Illinois(B, C, fB, fC, deltaSquared, phiSquared, v, a, tauSquared, n + 1)
             ELSE Illinois(A, C, DivInt(fA, 2), fC, deltaSquared, phiSquared, v, a,
                           tauSquared, n + 1)))

\* the run of UpdateVolatility: the new volatility, whether both loops ended
\* within MaxIter, and the iterations taken
VolatilityRun(sigma, phi, delta, v) ==
    With(Mul(delta, delta), LAMBDA deltaSquared :
    With(Mul(phi, phi), LAMBDA phiSquared :
    With(Mul(kTau, kTau), LAMBDA tauSquared :
    With(Log(Mul(sigma, sigma)), LAMBDA a :
    With(IF deltaSquared > phiSquared + v
         THEN [x |-> Log(deltaSquared - phiSquared - v), ok |-> TRUE, n |-> 0]
         ELSE BracketDown(a - kTau, deltaSquared, phiSquared, v, a, tauSquared, 0),
         LAMBDA Bk :
    With(Illinois(a, Bk.x,
                  VolatilityFunction(a, deltaSquared, phiSquared, v, a, tauSquared),
                  VolatilityFunction(Bk.x, deltaSquared, phiSquared, v, a, tauSquared),
                  deltaSquared, phiSquared, v, a, tauSquared, 0),
         LAMBDA run :
        [sigma |-> Exp(DivInt(run.x, 2)), ok |-> Bk.ok /\ run.ok,
         bracketSteps |-> Bk.n, iterations |-> run.n]))))))

UpdateVolatility(sigma, phi, delta, v) == VolatilityRun(sigma, phi, delta, v).sigma

\* phi* = sqrt(phi^2 + sigma'^2); phi' = 1 / sqrt(1 / phi*^2 + 1 / v)
UpdateRatingDeviation(phi, sigmaPrime, v) ==
    With(Sqrt(Mul(phi, phi) + Mul(sigmaPrime, sigmaPrime)), LAMBDA phiStar :
        Div(FP, Sqrt(Div(FP, Mul(phiStar, phiStar)) + Div(FP, v))))

\* the rating mean moved by E - s instead of s - E
UpdateRatingMeanSwapped(mu, phiPrime, g, score, expectedScore) ==
    mu + Mul(Mul(Mul(phiPrime, phiPrime), g), expectedScore - score)

\* mu* = mu + phi'^2 g (s - E)
UpdateRatingMean(mu, phiPrime, g, score, expectedScore) ==
    mu + Mul(Mul(Mul(phiPrime, phiPrime), g), score - expectedScore)

\* a clamp that cuts off losses only
ClampRatingChangeLossesOnly(mu, muPrime) ==
    IF mu - muPrime > kMaxRatingChange THEN mu - kMaxRatingChange ELSE muPrime

\* limit |mu' - mu| to kMaxRatingChange
ClampRatingChange(mu, muPrime) ==
    LET deltaMu == muPrime - mu
    IN  IF Abs(deltaMu) > kMaxRatingChange
        THEN IF deltaMu > 0 THEN mu + kMaxRatingChange ELSE mu - kMaxRatingChange
        ELSE muPrime

\* TeamGlicko2System::UpdatePlayerRating up to the scaled update: sigma',
\* phi', mu* and mu + f (mu* - mu), before any clamp
ScaledUpdate(player, opponentMu, opponentPhi, score, zScore) ==
    LET mu == player.mu
        phi == player.phi
        sigma == player.sigma
    IN  With(GFunction(opponentPhi), LAMBDA g :
        With(ComputeExpectedScore(player, opponentMu, g), LAMBDA expectedScore :
        With(ComputeVariance(g, expectedScore), LAMBDA v :
        With(ComputeDelta(v, g, score, expectedScore), LAMBDA delta :
        With(UpdateVolatility(sigma, phi, delta, v), LAMBDA sigmaPrime :
        With(UpdateRatingDeviation(phi, sigmaPrime, v), LAMBDA phiPrime :
        With(UpdateRatingMean(mu, phiPrime, g, score, expectedScore), LAMBDA muStar :
        With(muStar - mu, LAMBDA deltaMu :
        With(ComputeScalingFactor(zScore, deltaMu, kBeta, kScaleMin, kScaleMax),
             LAMBDA scalingFactor :
            [muScaled |-> mu + Mul(scalingFactor, deltaMu),
             muStar |-> muStar,
             phiPrime |-> phiPrime,
             sigmaPrime |-> sigmaPrime])))))))))

\* TeamGlicko2System::UpdatePlayerRating.  The result is a freshly
\* constructed PlayerRating whose mu, phi and sigma are then set.
UpdatePlayerRating(player, opponentMu, opponentPhi, score, zScore) ==
    With(ScaledUpdate(player, opponentMu, opponentPhi, score, zScore), LAMBDA u :
    With(IF kEnableRatingClamp THEN ClampRatingChange(player.mu, u.muScaled)
                               ELSE u.muScaled,
         LAMBDA muPrime :
        [PlayerRating(kDefaultRating, kDefaultRD, kDefaultVolatility)
            EXCEPT !.mu = muPrime, !.phi = u.phiPrime, !.sigma = u.sigmaPrime]))

\* MatchPlayer(const PlayerRating& r, double perf)
MatchPlayer(r, perf) == [rating |-> r, performanceScore |-> perf]

\* MatchResult()
MatchResult == [teamA |-> <<>>, teamB |-> <<>>, scoreA |-> 0, scoreB |-> 0]

\* the ratings, and the performance scores, of a team in roster order
RatingsOf(team) == [i \in 1..Len(team) |-> team[i].rating]
PerformanceOf(team) == [i \in 1..Len(team) |-> team[i].performanceScore]

\* one of the two update loops of ProcessMatch: every player of the team is
\* updated against the aggregate of the other team
UpdateTeam(team, opponentStats, score, weights) ==
    [i \in 1..Len(team) |->
        [team[i] EXCEPT !.rating =
            UpdatePlayerRating(team[i].rating, opponentStats.mu, opponentStats.phi,
                               score, weights[i])]]

\* ProcessMatch with the z-scores of a participant taken over the performance
\* scores of both teams
ProcessMatchPooled(match) ==
    With(ComputeTeamStats(RatingsOf(match.teamA)), LAMBDA statsA :
    With(ComputeTeamStats(RatingsOf(match.teamB)), LAMBDA statsB :
    With(ComputeZScores(PerformanceOf(match.teamA) \o PerformanceOf(match.teamB)),
         LAMBDA weights :
        [match EXCEPT
            !.teamA = UpdateTeam(match.teamA, statsB, match.scoreA,
                                 SubSeq(weights, 1, Len(match.teamA))),
            !.teamB = UpdateTeam(match.teamB, statsA, match.scoreB,
                                 SubSeq(weights, Len(match.teamA) + 1, Len(weights)))])))

\* ProcessMatch with team B updated against team A as the first loop left it
ProcessMatchSequential(match) ==
    With(ComputeTeamStats(RatingsOf(match.teamB)), LAMBDA statsB :
    With(ComputeZScores(PerformanceOf(match.teamA)), LAMBDA weightsA :
    With(ComputeZScores(PerformanceOf(match.teamB)), LAMBDA weightsB :
    With(UpdateTeam(match.teamA, statsB, match.scoreA, weightsA), LAMBDA updatedA :
    With(ComputeTeamStats(RatingsOf(updatedA)), LAMBDA statsA :
        [match EXCEPT
            !.teamA = updatedA,
            !.teamB = UpdateTeam(match.teamB, statsA, match.scoreB, weightsB)])))))

\* TeamGlicko2System::ProcessMatch: the MatchResult as the call leaves it.
\* Both aggregates and both sets of z-scores are taken before any update.
ProcessMatch(match) ==
    With(ComputeTeamStats(RatingsOf(match.teamA)), LAMBDA statsA :
    With(ComputeTeamStats(RatingsOf(match.teamB)), LAMBDA statsB :
    With(ComputeZScores(PerformanceOf(match.teamA)), LAMBDA weightsA :
    With(ComputeZScores(PerformanceOf(match.teamB)), LAMBDA weightsB :
        [match EXCEPT
            !.teamA = UpdateTeam(match.teamA, statsB, match.scoreA, weightsA),
            !.teamB = UpdateTeam(match.teamB, statsA, match.scoreB, weightsB)]))))

(***************************************************************************)
(* TeamBalancer.  Players are addressed by their 0-based index into the    *)
(* sorted pool, as in the code; strengths, ratings and uncertainties are   *)
(* centi-points, lambda is held at scale 1/FP.                             *)
(***************************************************************************)
\* PlayerInfo(int id, const PlayerRating& r)
PlayerInfo(id, r) ==
    [playerId |-> id, rating |-> r, effectiveRating |-> ComputeEffectiveRating(r)]

\* std::numeric_limits<double>::max()
DBL_MAX == 2147483647

\* TeamAssignment()
TeamAssignment ==
    [team0PlayerIds |-> <<>>, team1PlayerIds |-> <<>>, objectiveValue |-> DBL_MAX,
     strengthDifference |-> 0, uncertaintyDifference |-> 0,
     team0Strength |-> 0, team1Strength |-> 0,
     team0Uncertainty |-> 0, team1Uncertainty |-> 0, pureRatingDifference |-> 0]

\* BalancerConfig()
BalancerConfig ==
    [lambda |-> kLambda, separateTopPlayers |-> TRUE,
     putTopPlayerInSmallerTeam |-> TRUE, maxCombinationsToTry |-> 10000]

\* the element at a 0-based index
At(seq, idx) == seq[idx + 1]

\* std::sort with the comparator ratingA > ratingB.  For the pool sizes of the
\* balancer (at most 16 elements) libstdc++ sorts by insertion, which keeps
\* players of equal effective rating in their pool order.
RECURSIVE InsertSorted(_, _, _)
InsertSorted(sorted, player, i) ==
    IF i > Len(sorted) THEN Append(sorted, player)
    ELSE IF ComputeEffectiveRating(player.rating) > ComputeEffectiveRating(sorted[i].rating)
         THEN SubSeq(sorted, 1, i - 1) \o <<player>> \o SubSeq(sorted, i, Len(sorted))
         ELSE InsertSorted(sorted, player, i + 1)

RECURSIVE SortByEffectiveRating(_, _)
SortByEffectiveRating(players, n) ==
    IF n = 0 THEN <<>>
    ELSE InsertSorted(SortByEffectiveRating(players, n - 1), players[n], 1)

\* Complement with the last index left out
RECURSIVE ComplementShort(_, _, _)
ComplementShort(n, team0Indices, i) ==
    IF i >= n - 1 THEN <<>>
    ELSE IF \E k \in 1..Len(team0Indices) : team0Indices[k] = i
         THEN ComplementShort(n, team0Indices, i + 1)
         ELSE <<i>> \o ComplementShort(n, team0Indices, i + 1)

\* the indices of players not in team0Indices, ascending
RECURSIVE Complement(_, _, _)
Complement(n, team0Indices, i) ==
    IF i >= n THEN <<>>
    ELSE IF \E k \in 1..Len(team0Indices) : team0Indices[k] = i
         THEN Complement(n, team0Indices, i + 1)
         ELSE <<i>> \o Complement(n, team0Indices, i + 1)

RECURSIVE SumIndexed(_, _, _, _)
SumIndexed(players, playerIndices, F(_), k) ==
    IF k > Len(playerIndices) THEN 0
    ELSE F(At(players, playerIndices[k])) + SumIndexed(players, playerIndices, F, k + 1)

EffectiveRatingOf(p) == p.effectiveRating
\* rd * rd in points^2, held at scale 1/RP
RDSquaredOf(p) == LET rd == GetRD(p.rating) IN DivInt(rd * rd, RP)
PureRatingOf(p) == GetRating(p.rating)

CalculateTeamStrength(players, playerIndices) ==
    SumIndexed(players, playerIndices, EffectiveRatingOf, 1)

CalculateTeamUncertainty(players, playerIndices) ==
    SqrtScaled(SumIndexed(players, playerIndices, RDSquaredOf, 1), RP)

CalculatePureRatingSum(players, playerIndices) ==
    SumIndexed(players, playerIndices, PureRatingOf, 1)

\* total / size, and total / sqrt(size), 0 for an empty team
AverageOf(total, size) == IF size > 0 THEN DivInt(total, size) ELSE 0
RootAverageOf(total, size) == IF size > 0 THEN Div(total, Sqrt(size * FP)) ELSE 0

\* EvaluateAssignment: the objective with the out-parameters as fields
EvaluateAssignment(players, team0Indices, team1Indices, lambda) ==
    With(CalculateTeamStrength(players, team0Indices), LAMBDA totalStrength0 :
    With(CalculateTeamStrength(players, team1Indices), LAMBDA totalStrength1 :
    With(CalculateTeamUncertainty(players, team0Indices), LAMBDA totalUncertainty0 :
    With(CalculateTeamUncertainty(players, team1Indices), LAMBDA totalUncertainty1 :
        LET size0 == Len(team0Indices)
            size1 == Len(team1Indices)
            strengthDiff ==
                Abs(AverageOf(totalStrength0, size0) - AverageOf(totalStrength1, size1))
            uncertaintyDiff ==
                Abs(RootAverageOf(totalUncertainty0, size0)
                    - RootAverageOf(totalUncertainty1, size1))
        IN  [objectiveValue |-> strengthDiff + Mul(lambda, uncertaintyDiff),
             outStrength0 |-> totalStrength0, outStrength1 |-> totalStrength1,
             outUncertainty0 |-> totalUncertainty0,
             outUncertainty1 |-> totalUncertainty1,
             outPureRating0 |-> CalculatePureRatingSum(players, team0Indices),
             outPureRating1 |-> CalculatePureRatingSum(players, team1Indices)]))))

\* ViolatesTopPlayerConstraint looking for indices 0 and 2
ViolatesTopPlayerConstraintOffByOne(sortedPlayers, teamIndices) ==
    IF Len(sortedPlayers) < 2 THEN FALSE
    ELSE (\E k \in 1..Len(teamIndices) : teamIndices[k] = 0)
         /\ (\E k \in 1..Len(teamIndices) : teamIndices[k] = 2)

ViolatesTopPlayerConstraint(sortedPlayers, teamIndices) ==
    IF Len(sortedPlayers) < 2 THEN FALSE
    ELSE (\E k \in 1..Len(teamIndices) : teamIndices[k] = 0)
         /\ (\E k \in 1..Len(teamIndices) : teamIndices[k] = 1)

\* the player ids at the given indices, in that order
IdsAt(players, playerIndices) ==
    [k \in 1..Len(playerIndices) |-> At(players, playerIndices[k]).playerId]

\* CreateAssignment evaluates with the lambda of a default BalancerConfig
CreateAssignment(players, team0Indices) ==
    With(Complement(Len(players), team0Indices, 0), LAMBDA team1Indices :
    With(BalancerConfig, LAMBDA defaultConfig :
    With(EvaluateAssignment(players, team0Indices, team1Indices, defaultConfig.lambda),
         LAMBDA e :
    LET size0 == Len(team0Indices)
        size1 == Len(team1Indices)
    IN  [team0PlayerIds |-> IdsAt(players, team0Indices),
         team1PlayerIds |-> IdsAt(players, team1Indices),
         objectiveValue |-> e.objectiveValue,
         strengthDifference |->
             Abs(AverageOf(e.outStrength0, size0) - AverageOf(e.outStrength1, size1)),
         uncertaintyDifference |->
             Abs(RootAverageOf(e.outUncertainty0, size0)
                 - RootAverageOf(e.outUncertainty1, size1)),
         team0Strength |-> e.outStrength0, team1Strength |-> e.outStrength1,
         team0Uncertainty |-> e.outUncertainty0, team1Uncertainty |-> e.outUncertainty1,
         pureRatingDifference |->
             Abs(AverageOf(e.outPureRating0, size0) - AverageOf(e.outPureRating1, size1))])))

\* the comparison of a candidate with bestAssignment: lower objective, then
\* smaller |pureRating0 - pureRating1|, then smaller |uncertainty0 - uncertainty1|
\* (the totals EvaluateAssignment hands out), each against the field that
\* CreateAssignment stored for the best
IsBetter(e, bestAssignment) ==
    IF e.objectiveValue < bestAssignment.objectiveValue THEN TRUE
    ELSE IF e.objectiveValue = bestAssignment.objectiveValue
         THEN LET pureRatingDiff == Abs(e.outPureRating0 - e.outPureRating1)
                  uncertaintyDiff == Abs(e.outUncertainty0 - e.outUncertainty1)
              IN  IF pureRatingDiff < bestAssignment.pureRatingDifference THEN TRUE
                  ELSE IF pureRatingDiff = bestAssignment.pureRatingDifference
                       THEN uncertaintyDiff < bestAssignment.uncertaintyDifference
                       ELSE FALSE
         ELSE FALSE

\* the base case of GenerateCombinations: currentTeam0 is complete.  search
\* holds bestAssignment and combinationsTried, and the candidates counted so
\* far in the order they were reached.
ExamineCandidate(players, config, currentTeam0, search) ==
    With([search EXCEPT !.combinationsTried = @ + 1,
                        !.examined = Append(@, currentTeam0)], LAMBDA counted :
    With(Complement(Len(players), currentTeam0, 0), LAMBDA team1Indices :
        IF config.separateTopPlayers /\ ViolatesTopPlayerConstraint(players, currentTeam0)
        THEN counted
        ELSE IF config.separateTopPlayers
                /\ ViolatesTopPlayerConstraint(players, team1Indices)
        THEN counted
        ELSE IF IsBetter(EvaluateAssignment(players, currentTeam0, team1Indices,
                                            config.lambda),
                         search.bestAssignment)
        THEN [counted EXCEPT !.bestAssignment = CreateAssignment(players, currentTeam0)]
        ELSE counted))

\* early pruning in the loop: player i is skipped when the other of the top
\* two is already in currentTeam0
SkipsPlayer(config, currentTeam0, i) ==
    /\ config.separateTopPlayers
    /\ Len(currentTeam0) > 0
    /\ \/ (i = 1 /\ \E k \in 1..Len(currentTeam0) : currentTeam0[k] = 0)
       \/ (i = 0 /\ \E k \in 1..Len(currentTeam0) : currentTeam0[k] = 1)

RECURSIVE GenerateCombinations(_, _, _, _, _, _)
RECURSIVE CombinationLoop(_, _, _, _, _, _)

\* for (int i = startIndex; i < players.size(); i++) { ... }
CombinationLoop(players, config, teamSize, i, currentTeam0, search) ==
    IF i >= Len(players) THEN search
    ELSE IF SkipsPlayer(config, currentTeam0, i)
    THEN CombinationLoop(players, config, teamSize, i + 1, currentTeam0, search)
    ELSE With(GenerateCombinations(players, config, teamSize, i + 1,
                                   Append(currentTeam0, i), search), LAMBDA after :
             IF after.combinationsTried >= config.maxCombinationsToTry THEN after
             ELSE CombinationLoop(players, config, teamSize, i + 1, currentTeam0, after))

GenerateCombinations(players, config, teamSize, startIndex, currentTeam0, search) ==
    IF search.combinationsTried >= config.maxCombinationsToTry THEN search
    ELSE IF Len(currentTeam0) = teamSize
    THEN ExamineCandidate(players, config, currentTeam0, search)
    ELSE IF Len(players) - startIndex < teamSize - Len(currentTeam0) THEN search
    ELSE CombinationLoop(players, config, teamSize, startIndex, currentTeam0, search)

\* sortedPlayers: the pool with effectiveRating recomputed, sorted descending
SortedPlayers(players) ==
    SortByEffectiveRating(
        [k \in 1..Len(players) |->
            [players[k] EXCEPT
                !.effectiveRating = ComputeEffectiveRating(players[k].rating)]],
        Len(players))

\* the search started without forcing the top player into team 0
RunSearchUnforced(players, config) ==
    GenerateCombinations(SortedPlayers(players), config, Len(players) \div 2, 0, <<>>,
        [bestAssignment |-> TeamAssignment, combinationsTried |-> 0,
         examined |-> <<>>])

\* the search with teamSize rounded up
RunSearchRoundedUp(players, config) ==
    LET teamSize == (Len(players) + 1) \div 2
        isUnevenTeams == Len(players) % 2 # 0
        forced == isUnevenTeams /\ config.putTopPlayerInSmallerTeam
        currentTeam0 == IF forced THEN <<0>> ELSE <<>>
        startIndex == IF forced THEN 1 ELSE 0
    IN  GenerateCombinations(SortedPlayers(players), config, teamSize, startIndex,
            currentTeam0,
            [bestAssignment |-> TeamAssignment, combinationsTried |-> 0,
             examined |-> <<>>])

\* the search BalanceTeams runs on a pool of at least two players
RunSearch(players, config) ==
    LET teamSize == Len(players) \div 2
        isUnevenTeams == Len(players) % 2 # 0
        forced == isUnevenTeams /\ config.putTopPlayerInSmallerTeam
        currentTeam0 == IF forced THEN <<0>> ELSE <<>>
        startIndex == IF forced THEN 1 ELSE 0
    IN  GenerateCombinations(SortedPlayers(players), config, teamSize, startIndex,
            currentTeam0,
            [bestAssignment |-> TeamAssignment, combinationsTried |-> 0,
             examined |-> <<>>])

\* BalanceTeams: the returned TeamAssignment
BalanceTeams(players, config) ==
    IF Len(players) < 2 THEN [TeamAssignment EXCEPT !.objectiveValue = 0]
    ELSE RunSearch(players, config).bestAssignment

(***************************************************************************)
(* State.  The balancer and the match engine are static functions; the     *)
(* state is what their callers hold: the arguments of the last call and    *)
(* what it returned or left behind in the MatchResult.                     *)
(***************************************************************************)
VARIABLES
    players,            \* the pool handed to BalanceTeams
    config,             \* the BalancerConfig handed to BalanceTeams
    bestAssignment,     \* the TeamAssignment BalanceTeams returned
    combinationsTried,  \* the local counter of BalanceTeams when it returned
    examined,           \* the complete candidates the search counted, in order
    balancerCalls,      \* BalanceTeams calls made on the pool so far
    previousCall,       \* config, result and counter of the call before
    match,              \* the MatchResult as ProcessMatch left it
    preMatch,           \* the MatchResult as it was handed to ProcessMatch
    matchCalls,         \* ProcessMatch calls made so far
    scalingArgs,        \* the arguments of the last ComputeScalingFactor call
    scalingFactor,      \* what that call returned
    decayArgs,          \* the rating DecayForInactivity was last called on, and its arguments
    decayed,            \* the rating as that call left it
    playerRatings,      \* the ratings a caller keeps by player id
    requests,           \* the matches two callers are working on, and how far they are
    storeLog,           \* the reads and writes of playerRatings, in order
    tracked,            \* a rating whose recent performance a caller keeps up to date
    observed,           \* the arguments of the UpdateRecentPerformance calls made on it
    finder,             \* the run of UpdateVolatility a caller is in: its arguments, locals and position
    rated,              \* a PlayerRating a caller builds and sets through the public scale
    published,          \* the public rating and deviation the caller last gave it, and through which call
    measured,           \* the recent performance of one player, in binary floating point
    measuredCalls,      \* how many UpdateRecentPerformance calls measured has taken
    batch,              \* the batch processor: its position, the matches it loaded and its playerRatings
    batchLog            \* one entry for every match the batch loop has visited

balancerVars ==
    <<players, config, bestAssignment, combinationsTried, examined, balancerCalls,
      previousCall>>

matchVars == <<match, preMatch, matchCalls>>

scalingVars == <<scalingArgs, scalingFactor>>

decayVars == <<decayArgs, decayed>>

storeVars == <<playerRatings, requests, storeLog>>

trackVars == <<tracked, observed>>

finderVars == <<finder>>

scaleVars == <<rated, published>>

roundVars == <<measured, measuredCalls>>

batchVars == <<batch, batchLog>>

vars == <<balancerVars, matchVars, scalingVars, decayVars, storeVars, trackVars,
         finderVars, scaleVars, roundVars, batchVars>>

\* pool sizes run from 0 to MaxPlayers
MaxPlayers == 8

\* the ratings and deviations (points) that pools are drawn from
PoolRatings == <<1500, 1800, 1400, 1600, 1700, 1650>>
PoolDeviations == <<200, 100, 350, 50, 150, 80, 200>>

\* the player with id k, as a caller constructs it
PoolPlayer(k) ==
    PlayerInfo(k, PlayerRating(PoolRatings[((k - 1) % Len(PoolRatings)) + 1] * RP,
                               PoolDeviations[((k - 1) % Len(PoolDeviations)) + 1] * RP,
                               kDefaultVolatility))

\* the pools: players i .. j for every i and j, the empty pool among them
Pools ==
    {[k \in 1..(j - i + 1) |-> PoolPlayer(i + k - 1)] :
        i \in 1..(MaxPlayers + 1), j \in 0..MaxPlayers}

\* players who come with a recent-performance record: rating and deviation
\* in points and the performance index of their one game so far
RatedRoster ==
    <<<<1700, 80, 0>>, <<1600, 80, 0>>, <<1500, 80, 0>>, <<1480, 80, FP>>,
      <<1520, 80, -FP>>>>

RatedPlayer(k) ==
    PlayerInfo(100 + k,
        UpdateRecentPerformance(
            PlayerRating(RatedRoster[k][1] * RP, RatedRoster[k][2] * RP,
                         kDefaultVolatility),
            RatedRoster[k][3], kPerfTargetWindow))

\* the pools of rated players i .. j
RatedPools ==
    {[k \in 1..(j - i + 1) |-> RatedPlayer(i + k - 1)] :
        i \in 1..Len(RatedRoster), j \in 1..Len(RatedRoster)}

Lambdas == {0, kLambda, 2 * FP}
Budgets == {0, 1, 3, BalancerConfig.maxCombinationsToTry}

Configs ==
    [lambda : Lambdas, separateTopPlayers : BOOLEAN,
     putTopPlayerInSmallerTeam : BOOLEAN, maxCombinationsToTry : Budgets]

NoCall == [config |-> BalancerConfig, bestAssignment |-> TeamAssignment,
           combinationsTried |-> 0]

InitBalancer ==
    /\ players = <<>>
    /\ config = BalancerConfig
    /\ bestAssignment = TeamAssignment
    /\ combinationsTried = 0
    /\ examined = <<>>
    /\ balancerCalls = 0
    /\ previousCall = NoCall

\* what one call of BalanceTeams leaves with the caller
CallBalanceTeams(pool, cfg) ==
    /\ players' = pool
    /\ config' = cfg
    /\ IF Len(pool) < 2
       THEN /\ bestAssignment' = BalanceTeams(pool, cfg)
            /\ combinationsTried' = 0
            /\ examined' = <<>>
       ELSE LET search == RunSearch(pool, cfg)
            IN  /\ bestAssignment' = search.bestAssignment
                /\ combinationsTried' = search.combinationsTried
                /\ examined' = search.examined

\* a caller balances a pool
Balance ==
    /\ balancerCalls = 0
    /\ \E pool \in Pools \cup RatedPools, cfg \in Configs :
           CallBalanceTeams(pool, cfg)
    /\ balancerCalls' = 1
    /\ UNCHANGED previousCall

\* the caller balances the same pool again with another (or the same) budget
Rebalance ==
    /\ balancerCalls = 1
    /\ \E budget \in Budgets :
           CallBalanceTeams(players, [config EXCEPT !.maxCombinationsToTry = budget])
    /\ balancerCalls' = 2
    /\ previousCall' = [config |-> config, bestAssignment |-> bestAssignment,
                        combinationsTried |-> combinationsTried]

NextBalancer ==
    (Balance \/ Rebalance)
        /\ UNCHANGED <<matchVars, scalingVars, decayVars, storeVars, trackVars, finderVars,
                     scaleVars,
                     roundVars,
                     batchVars>>

\* rosters hold up to MaxTeamSize players, the empty roster among them
MaxTeamSize == 2

\* the players matches are drawn from: rating and deviation in points, and
\* the performance score of the match.  Two of them differ in the
\* performance score only; one comes with a recent-performance record.
MatchPlayers ==
    {MatchPlayer(PlayerRating(1500 * RP, 200 * RP, kDefaultVolatility), 10 * FP),
     MatchPlayer(PlayerRating(1500 * RP, 200 * RP, kDefaultVolatility), 2 * FP),
     MatchPlayer(PlayerRating(1400 * RP, 350 * RP, kDefaultVolatility), 2 * FP),
     MatchPlayer(UpdateRecentPerformance(
                     PlayerRating(1700 * RP, 35 * RP, kDefaultVolatility),
                     HalfFP, kPerfTargetWindow), 5 * FP)}

Rosters == UNION {[1..n -> MatchPlayers] : n \in 0..MaxTeamSize}

\* one large team of equally rated players: all but two with the same
\* performance score, the last two well above it and half a point apart
LargeTeamSize == 16

LargeRoster ==
    [i \in 1..LargeTeamSize |->
        MatchPlayer(PlayerRating(1500 * RP, 200 * RP, kDefaultVolatility),
                    IF i <= LargeTeamSize - 2 THEN 2 * FP
                    ELSE IF i = LargeTeamSize - 1 THEN 10 * FP
                    ELSE 10 * FP + HalfFP)]

\* scoreA and scoreB of a win of A, a win of B and a draw
MatchScores ==
    {<<kWinScore, kLossScore>>, <<kLossScore, kWinScore>>, <<kDrawScore, kDrawScore>>}

InitMatch ==
    /\ match = MatchResult
    /\ preMatch = MatchResult
    /\ matchCalls = 0

\* a caller fills a MatchResult and hands it to ProcessMatch
Process ==
    /\ matchCalls = 0
    /\ \E teamA \in Rosters \cup {LargeRoster}, teamB \in Rosters,
          scores \in MatchScores :
           LET filled == [MatchResult EXCEPT !.teamA = teamA, !.teamB = teamB,
                                             !.scoreA = scores[1], !.scoreB = scores[2]]
           IN  /\ preMatch' = filled
               /\ match' = ProcessMatch(filled)
    /\ matchCalls' = 1

NextMatch ==
    Process /\ UNCHANGED <<balancerVars, scalingVars, decayVars, storeVars, trackVars,
                     finderVars,
                     scaleVars,
                     roundVars,
                     batchVars>>

\* the arguments ComputeScalingFactor is called with
ZScores == {-3 * FP, -FP, -1, 0, 1, FP, 3 * FP}
DeltaMus == {-FP, -1, 0, 1, FP}
Betas == {0, kBeta, 2 * FP}
ScaleMins == {0, kScaleMin, FP, FP + kBeta}
ScaleMaxs == {FP - kBeta, FP, kScaleMax, 3 * FP}

ScalingArgs ==
    [zScore : ZScores, deltaMu : DeltaMus, beta : Betas, fMin : ScaleMins,
     fMax : ScaleMaxs]

InitScaling ==
    /\ scalingArgs = [zScore |-> 0, deltaMu |-> 0, beta |-> kBeta, fMin |-> kScaleMin,
                      fMax |-> kScaleMax]
    /\ scalingFactor = ComputeScalingFactor(0, 0, kBeta, kScaleMin, kScaleMax)

\* a caller asks for the scaling factor of a player
Scale ==
    \E args \in ScalingArgs :
        /\ scalingArgs' = args
        /\ scalingFactor' = ComputeScalingFactor(args.zScore, args.deltaMu, args.beta,
                                                  args.fMin, args.fMax)

NextScaling ==
    Scale /\ UNCHANGED <<balancerVars, matchVars, decayVars, storeVars, trackVars,
                     finderVars,
                     scaleVars,
                     roundVars,
                     batchVars>>

\* the ratings DecayForInactivity is called on: rating and deviation in
\* points; the second and third come with a recent-performance record, the
\* last has a deviation above kMaxRD
DecayRatings ==
    {PlayerRating(1500 * RP, 200 * RP, kDefaultVolatility),
     UpdateRecentPerformance(PlayerRating(1700 * RP, 35 * RP, kDefaultVolatility),
                             HalfFP, kPerfTargetWindow),
     UpdateRecentPerformance(PlayerRating(1400 * RP, 35000 - 1, kDefaultVolatility),
                             -FP, kPerfTargetWindow),
     PlayerRating(1300 * RP, 400 * RP, kDefaultVolatility)}

\* days since the last match run from a week before it to MaxPeriods
\* rating periods of a week after it, in steps of half a week
MaxPeriods == 10

DeltaDays == {(k * kDaysPerRatingPeriod) \div 2 : k \in -2..(2 * MaxPeriods)}

RoundsInPastDays == 0..(kMinRoundsForActivity + 1)

DaysPerPeriod == {kDaysPerRatingPeriod, 2 * kDaysPerRatingPeriod}

DecayArgs ==
    [rating : DecayRatings, roundsInPastDays : RoundsInPastDays, deltaDays : DeltaDays,
     minRoundsForActivity : {kMinRoundsForActivity}, daysPerPeriod : DaysPerPeriod]

InitDecay ==
    /\ decayArgs = [rating |-> PlayerRating(kDefaultRating, kDefaultRD, kDefaultVolatility),
                    roundsInPastDays |-> 0, deltaDays |-> 0,
                    minRoundsForActivity |-> kMinRoundsForActivity,
                    daysPerPeriod |-> kDaysPerRatingPeriod]
    /\ decayed = PlayerRating(kDefaultRating, kDefaultRD, kDefaultVolatility)

\* a caller decays the rating of a player
Decay ==
    \E args \in DecayArgs :
        /\ decayArgs' = args
        /\ decayed' = DecayForInactivity(args.rating, args.roundsInPastDays,
                                         args.deltaDays, args.minRoundsForActivity,
                                         args.daysPerPeriod)

NextDecay ==
    Decay /\ UNCHANGED <<balancerVars, matchVars, scalingVars, storeVars, trackVars,
                     finderVars,
                     scaleVars,
                     roundVars,
                     batchVars>>

\* Two callers run the body of the match loop of the batch processor, each
\* on a match of its own, against one map of ratings.  The shared player is
\* on team Red of both matches; each match has an opponent of its own.
Callers == {1, 2}

SharedPlayer == "p1"

OpponentOf(q) == IF q = 1 THEN "p2" ELSE "p3"

Winners == {"Red", "Blue", "Draw"}

\* MatchData: the players of the match and its winner
MatchData(q, winner) ==
    [matchId |-> q,
     players |-> <<[playerId |-> SharedPlayer, team |-> "Red"],
                   [playerId |-> OpponentOf(q), team |-> "Blue"]>>,
     winner |-> winner]

\* ComputePerformanceScore of a player with no kills, damage or score
MinPerformanceScore == 100 * FP

\* result.scoreA and result.scoreB for the winner of the match
ScoresOf(winner) ==
    IF winner = "Draw" THEN <<kDrawScore, kDrawScore>>
    ELSE IF winner = "Red" THEN <<kWinScore, kLossScore>>
    ELSE <<kLossScore, kWinScore>>

\* every player of the match given a new rating, stored before or not
GetOrCreateAnew(ratings, data) ==
    LET ids == {data.players[k].playerId : k \in 1..Len(data.players)}
    IN  [id \in DOMAIN ratings \cup ids |->
            IF id \in ids THEN PlayerRating(kDefaultRating, kDefaultRD, kDefaultVolatility)
            ELSE ratings[id]]

\* get or create ratings for all players of the match
GetOrCreate(ratings, data) ==
    LET ids == {data.players[k].playerId : k \in 1..Len(data.players)}
    IN  [id \in DOMAIN ratings \cup ids |->
            IF id \in DOMAIN ratings THEN ratings[id]
            ELSE PlayerRating(kDefaultRating, kDefaultRD, kDefaultVolatility)]

\* a read that finds a new player whoever it looks up
ReadRatingFresh(ratings, id) ==
    PlayerRating(kDefaultRating, kDefaultRD, kDefaultVolatility)

\* PlayerRating ratingBefore = playerRatings[player.playerId]
ReadRating(ratings, id) == ratings[id]

\* the MatchPlayers of one team, in the order of the match's players
TeamOf(ratings, data, team) ==
    LET members == SelectSeq(data.players, LAMBDA p : p.team = team)
    IN  [i \in 1..Len(members) |->
            MatchPlayer(ReadRating(ratings, members[i].playerId), MinPerformanceScore)]

\* the MatchResult built from the stored ratings
BuildMatchResult(ratings, data) ==
    [teamA |-> TeamOf(ratings, data, "Red"),
     teamB |-> TeamOf(ratings, data, "Blue"),
     scoreA |-> ScoresOf(data.winner)[1],
     scoreB |-> ScoresOf(data.winner)[2]]

\* redIdx or blueIdx when the loop over the players reaches player k
TeamIndex(data, k) ==
    Cardinality({j \in 1..k : data.players[j].team = data.players[k].team})

\* the rating the processed match holds for player k
RatingAfter(data, result, k) ==
    IF data.players[k].team = "Red" THEN result.teamA[TeamIndex(data, k)].rating
    ELSE result.teamB[TeamIndex(data, k)].rating

\* update stored ratings: playerRatings[player.playerId] = ratingAfter
WriteBack(ratings, data, result) ==
    [id \in DOMAIN ratings |->
        IF \E k \in 1..Len(data.players) : data.players[k].playerId = id
        THEN RatingAfter(data, result,
                         CHOOSE k \in 1..Len(data.players) : data.players[k].playerId = id)
        ELSE ratings[id]]

InitStore ==
    /\ playerRatings = [id \in {} |-> PlayerRating(kDefaultRating, kDefaultRD,
                                                   kDefaultVolatility)]
    /\ requests = [q \in Callers |->
                      [pc |-> "idle", data |-> MatchData(q, "Draw"),
                       result |-> MatchResult]]
    /\ storeLog = <<>>

\* a match is loaded from the input
Load(q) ==
    /\ requests[q].pc = "idle"
    /\ \E winner \in Winners :
           requests' = [requests EXCEPT ![q].pc = "loaded",
                                        ![q].data = MatchData(q, winner)]
    /\ UNCHANGED <<playerRatings, storeLog>>

\* the caller creates the missing ratings and builds the MatchResult from
\* the stored ones
Read(q) ==
    /\ requests[q].pc = "loaded"
    /\ LET created == GetOrCreate(playerRatings, requests[q].data)
       IN  /\ playerRatings' = created
           /\ requests' = [requests EXCEPT
                              ![q].pc = "read",
                              ![q].result = BuildMatchResult(created, requests[q].data)]
    /\ storeLog' = Append(storeLog, <<"read", q>>)

\* the caller processes the match and stores the ratings it leaves
Persist(q) ==
    /\ requests[q].pc = "read"
    /\ LET processed == ProcessMatch(requests[q].result)
       IN  /\ playerRatings' = WriteBack(playerRatings, requests[q].data, processed)
           /\ requests' = [requests EXCEPT ![q].pc = "done", ![q].result = processed]
    /\ storeLog' = Append(storeLog, <<"write", q>>)

NextStore ==
    (\E q \in Callers : Load(q) \/ Read(q) \/ Persist(q))
        /\ UNCHANGED <<balancerVars, matchVars, scalingVars, decayVars, trackVars,
                     finderVars,
                     scaleVars,
                     roundVars,
                     batchVars>>

\* a caller follows the recent performance of one player: up to
\* MaxObservations calls of UpdateRecentPerformance on a fresh rating
MaxObservations == 4

\* the z-scores handed in: two within and two beyond kMaxPerfZScore
PerfIndexes == {-5 * FP, FP, 2 * FP, 4 * FP}

\* the windows handed in: half a game, two and a half games, the default
TargetWindows == {HalfFP, 5 * HalfFP, kPerfTargetWindow}

InitTrack ==
    /\ tracked = PlayerRating(kDefaultRating, kDefaultRD, kDefaultVolatility)
    /\ observed = <<>>

Observe ==
    /\ Len(observed) < MaxObservations
    /\ \E matchPerfIndex \in PerfIndexes, targetWindow \in TargetWindows :
           /\ tracked' = UpdateRecentPerformance(tracked, matchPerfIndex, targetWindow)
           /\ observed' = Append(observed, [matchPerfIndex |-> matchPerfIndex,
                                            targetWindow |-> targetWindow])

NextTrack ==
    Observe /\ UNCHANGED <<balancerVars, matchVars, scalingVars, decayVars, storeVars,
                     finderVars,
                     scaleVars,
                     roundVars,
                     batchVars>>

\* a caller inside UpdateVolatility, one loop iteration at a time.  The
\* arguments cover both ways of choosing B, and deviations, variances and
\* evidence from small to large.
FinderSigmas == {kDefaultVolatility, FP \div 2}

FinderPhis == {FP \div 5, FP, 2 * FP}

FinderDeltas == {0, FP, -3 * FP, 9 * FP}

FinderVariances == {FP \div 100, FP \div 4, 4 * FP, 10 * FP}

IdleFinder ==
    [pc |-> "idle", sigma |-> 0, phi |-> 0, delta |-> 0, v |-> 0, a |-> 0,
     A |-> 0, B |-> 0, fA |-> 0, fB |-> 0, bracketSteps |-> 0, sigmaPrime |-> 0]

\* f(x) with the locals of the run
FinderF(r, x) ==
    VolatilityFunction(x, Mul(r.delta, r.delta), Mul(r.phi, r.phi), r.v, r.a,
                       Mul(kTau, kTau))

\* double fA = f(A); double fB = f(B); the Illinois loop is entered
EnterIllinois(r) ==
    [r EXCEPT !.pc = "illinois", !.fA = FinderF(r, r.A), !.fB = FinderF(r, r.B)]

\* a = log(sigma^2); A = a; B = log(Delta^2 - phi^2 - v) or a - tau
EnterOutcome(sigma, phi, delta, v) ==
    With(Log(Mul(sigma, sigma)), LAMBDA a :
    With([IdleFinder EXCEPT !.sigma = sigma, !.phi = phi, !.delta = delta,
                            !.v = v, !.a = a, !.A = a], LAMBDA r :
        IF Mul(delta, delta) > Mul(phi, phi) + v
        THEN EnterIllinois([r EXCEPT !.B = Log(Mul(delta, delta) - Mul(phi, phi) - v)])
        ELSE [r EXCEPT !.pc = "bracket", !.B = a - kTau]))

\* while (f(B) < 0.0) B -= kTau
BracketOutcome(r) ==
    IF FinderF(r, r.B) < 0
    THEN [r EXCEPT !.B = r.B - kTau, !.bracketSteps = r.bracketSteps + 1]
    ELSE EnterIllinois(r)

\* fA /= 2.0.  A double can be halved a thousand times before it underflows,
\* and what the loop does once fA is subnormal is decided by the rounding of
\* (A - B) * fA / (fB - fA): the compiled code either lands with A on B, or
\* comes back to B with fA as large as it was before the halving began.
HalveOutcomes(r, C, fC) ==
    IF Abs(r.fA) > 1
    THEN {[r EXCEPT !.fA = DivInt(r.fA, 2), !.B = C, !.fB = fC]}
    ELSE {[r EXCEPT !.A = C, !.fA = fC, !.B = C, !.fB = fC],
          [r EXCEPT !.fA = FinderF(r, r.A), !.B = C, !.fB = fC]}

\* one pass through the body of while (|B - A| > kConvergence)
IllinoisOutcomes(r) ==
    With(r.A + Mul(r.A - r.B, Div(r.fA, r.fB - r.fA)), LAMBDA C :
    With(FinderF(r, C), LAMBDA fC :
        IF (fC < 0 /\ r.fB > 0) \/ (fC > 0 /\ r.fB < 0)
        THEN {[r EXCEPT !.A = r.B, !.fA = r.fB, !.B = C, !.fB = fC]}
        ELSE HalveOutcomes(r, C, fC)))

\* return exp(A / 2)
LeaveOutcome(r) == [r EXCEPT !.pc = "done", !.sigmaPrime = Exp(DivInt(r.A, 2))]

\* the loop condition of the Illinois loop; fB = fA makes C infinite or NaN,
\* and every comparison with NaN is false
InIllinoisLoop(r) == Abs(r.B - r.A) > kConvergence /\ r.fB # r.fA

\* what the code does next from a position inside UpdateVolatility
StepOutcomes(r) ==
    IF r.pc = "bracket"
    THEN IF r.bracketSteps < MaxIter THEN {BracketOutcome(r)} ELSE {}
    ELSE IF r.pc = "illinois"
    THEN IF InIllinoisLoop(r) THEN IllinoisOutcomes(r) ELSE {LeaveOutcome(r)}
    ELSE {}

\* the positions in which the calls start
FinderEntries ==
    {EnterOutcome(sigma, phi, delta, v) :
        sigma \in FinderSigmas, phi \in FinderPhis, delta \in FinderDeltas,
        v \in FinderVariances}

\* every position the calls pass through
RECURSIVE FinderClosure(_, _)
FinderClosure(frontier, seen) ==
    IF frontier = {} THEN seen
    ELSE FinderClosure((UNION {StepOutcomes(r) : r \in frontier}) \ (seen \cup frontier),
                       seen \cup frontier)

FinderPositions == FinderClosure(FinderEntries, {})

\* the steps of the code, worked out once per position
FinderSteps == UNION {{<<r, q>> : q \in StepOutcomes(r)} : r \in FinderPositions}

StepsFrom(r) == {e[2] : e \in {d \in FinderSteps : d[1] = r}}

InitFinder == finder = IdleFinder

EnterUpdateVolatility ==
    /\ finder.pc = "idle"
    /\ finder' \in FinderEntries

BracketStep ==
    /\ finder.pc = "bracket"
    /\ finder' \in StepsFrom(finder)

IllinoisStep ==
    /\ finder.pc = "illinois"
    /\ InIllinoisLoop(finder)
    /\ finder' \in StepsFrom(finder)

LeaveUpdateVolatility ==
    /\ finder.pc = "illinois"
    /\ ~InIllinoisLoop(finder)
    /\ finder' \in StepsFrom(finder)

NextFinder ==
    (EnterUpdateVolatility \/ BracketStep \/ IllinoisStep \/ LeaveUpdateVolatility)
        /\ UNCHANGED <<balancerVars, matchVars, scalingVars, decayVars, storeVars,
                       trackVars, scaleVars,
                     roundVars,
                     batchVars>>

\* a caller gives a rating its public values, through the constructor or
\* through the setters: ratings below, at and above the default, deviations
\* from a hundredth of a point to far above kMaxRD
PublicRatings ==
    {-500 * RP, 0, 1, 1000 * RP - 1, kDefaultRating - 1, kDefaultRating,
     kDefaultRating + 1, 1500 * RP + 50, 1737 * RP + 18, 2500 * RP, 3133 * RP + 70,
     3500 * RP}

PublicDeviations ==
    {1, 30, 30 * RP, 35 * RP, 58 * RP + 25, 200 * RP + 25, kDefaultRD,
     kDefaultRD + 1, 600 * RP, 1000 * RP}

InitScale ==
    /\ rated = PlayerRating(kDefaultRating, kDefaultRD, kDefaultVolatility)
    /\ published = [rating |-> kDefaultRating, rd |-> kDefaultRD, by |-> "none"]

Construct ==
    \E rating \in PublicRatings, rd \in PublicDeviations :
        /\ rated' = PlayerRating(rating, rd, kDefaultVolatility)
        /\ published' = [rating |-> rating, rd |-> rd, by |-> "PlayerRating"]

AssignRating ==
    \E rating \in PublicRatings :
        /\ rated' = SetRating(rated, rating)
        /\ published' = [published EXCEPT !.rating = rating, !.by = "SetRating"]

AssignRD ==
    \E rd \in PublicDeviations :
        /\ rated' = SetRD(rated, rd)
        /\ published' = [published EXCEPT !.rd = rd, !.by = "SetRD"]

NextScale ==
    (Construct \/ AssignRating \/ AssignRD)
        /\ UNCHANGED <<balancerVars, matchVars, scalingVars, decayVars, storeVars,
                       trackVars, finderVars,
                     roundVars,
                     batchVars>>

\* the arithmetic of double, with a shorter significand: a value is
\* m * 2^e with SignificandBits bits in m, and every operation rounds its
\* exact result to the nearest such value, ties to the even significand
SignificandBits == 13

\* the headroom kept when two significands are aligned or divided
GuardBits == 17

RECURSIVE Pow2(_)
Pow2(k) == IF k <= 0 THEN 1 ELSE 2 * Pow2(k - 1)

RECURSIVE BitLength(_)
BitLength(a) == IF a = 0 THEN 0 ELSE 1 + BitLength(a \div 2)

\* n * 2^e as the nearest value that has SignificandBits bits
RoundToNearestEven(n, e) ==
    LET a == Abs(n)
        s == IF n < 0 THEN -1 ELSE 1
        k == BitLength(a) - SignificandBits
    IN  IF n = 0 THEN [m |-> 0, e |-> 0]
        ELSE IF k <= 0 THEN [m |-> s * a * Pow2(-k), e |-> e + k]
        ELSE LET q == a \div Pow2(k)
                 rest == a % Pow2(k)
                 half == Pow2(k - 1)
                 r == IF rest > half \/ (rest = half /\ q % 2 = 1) THEN q + 1 ELSE q
             IN  IF r = Pow2(SignificandBits)
                 THEN [m |-> s * Pow2(SignificandBits - 1), e |-> e + k + 1]
                 ELSE [m |-> s * r, e |-> e + k]

\* an int converted to double
FromInt(n) == RoundToNearestEven(n, 0)

\* static_cast<int>: the fraction is dropped
ToIntTruncated(x) ==
    IF x.e >= 0 THEN x.m * Pow2(x.e)
    ELSE IF -x.e > SignificandBits THEN 0
    ELSE (IF x.m < 0 THEN -1 ELSE 1) * (Abs(x.m) \div Pow2(-x.e))

\* operator* of double
FlMul(x, y) == RoundToNearestEven(x.m * y.m, x.e + y.e)

\* operator+ of double
FlAdd(x, y) ==
    LET hi == IF x.e >= y.e THEN x ELSE y
        lo == IF x.e >= y.e THEN y ELSE x
        d == hi.e - lo.e
    IN  IF x.m = 0 THEN y
        ELSE IF y.m = 0 THEN x
        ELSE IF d > GuardBits THEN hi
        ELSE RoundToNearestEven(hi.m * Pow2(d) + lo.m, lo.e)

\* operator- of double
FlSub(x, y) == FlAdd(x, [y EXCEPT !.m = -y.m])

\* operator/ of double, y not zero: the quotient to GuardBits more bits,
\* and one bit more that says whether anything was left over
FlDiv(x, y) ==
    LET n == Abs(x.m) * Pow2(GuardBits)
        q == n \div Abs(y.m)
        sticky == IF n % Abs(y.m) = 0 THEN 0 ELSE 1
        s == IF (x.m < 0) = (y.m < 0) THEN 1 ELSE -1
    IN  RoundToNearestEven(s * (2 * q + sticky), x.e - y.e - GuardBits - 1)

\* operator< of double
FlLess(x, y) == FlSub(x, y).m < 0

\* std::max and std::min of two doubles
FlMax(x, y) == IF FlLess(x, y) THEN y ELSE x
FlMin(x, y) == IF FlLess(y, x) THEN y ELSE x

\* TeamGlicko2::kMaxPerfZScore as a double
kMaxPerfZScoreDouble == FromInt(kMaxPerfZScore \div FP)

\* PlayerRating::UpdateRecentPerformance on the two members it touches,
\* every operation rounded as the build rounds it
UpdateRecentPerformanceRounded(r, matchPerfIndex, targetWindow) ==
    LET clipped == FlMax([kMaxPerfZScoreDouble EXCEPT !.m = -@],
                         FlMin(matchPerfIndex, kMaxPerfZScoreDouble))
        one == FromInt(1)
        alpha == IF r.perfGames <= 0 THEN one
                 ELSE IF r.perfGames < ToIntTruncated(targetWindow)
                      THEN FlDiv(one, FlAdd(FromInt(r.perfGames), one))
                      ELSE FlDiv(FromInt(2), FlAdd(targetWindow, one))
    IN  [perfIndexEMA |-> FlAdd(FlMul(FlSub(one, alpha), r.perfIndexEMA),
                                FlMul(alpha, clipped)),
         perfGames |-> r.perfGames + 1]

\* a caller follows the recent performance of one player in the arithmetic
\* of the build: up to MaxCalls calls on a fresh rating
MaxCalls == 6

\* the z-scores handed in: within kMaxPerfZScore, beyond it on either side
PerfIndexDoubles == {FromInt(1), RoundToNearestEven(-3, -1), FromInt(5), FromInt(-5)}

\* the windows handed in: one game, two and a half games, the default
TargetWindowDoubles == {FromInt(1), RoundToNearestEven(5, -1), FromInt(kPerfTargetWindow \div FP)}

InitRound ==
    /\ measured = [perfIndexEMA |-> FromInt(0), perfGames |-> 0]
    /\ measuredCalls = 0

Measure ==
    /\ measuredCalls < MaxCalls
    /\ \E matchPerfIndex \in PerfIndexDoubles, targetWindow \in TargetWindowDoubles :
           measured' = UpdateRecentPerformanceRounded(measured, matchPerfIndex, targetWindow)
    /\ measuredCalls' = measuredCalls + 1

NextRound ==
    Measure /\ UNCHANGED <<balancerVars, matchVars, scalingVars, decayVars, storeVars,
                     trackVars, finderVars, scaleVars,
                     batchVars>>

\* the batch processor reads one file, groups its rows by match and visits
\* the matches in the order of the map that holds them

\* one row of the input file
Row(matchId, playerId, team, winner) ==
    [matchId |-> matchId, playerId |-> playerId, team |-> team, winner |-> winner]

\* the Winner column: the three known values and one that is none of them
WinnerColumn == Winners \cup {"Unknown"}

\* the rows of match 1: a against b
RowsOfFirst(winner) == <<Row(1, "a", "Red", winner), Row(1, "b", "Blue", winner)>>

\* the rows of match 2: c against a with b looking on, or a and c on one
\* team with nobody on the other
RowsOfSecond(winner, oneSided) ==
    IF oneSided
    THEN <<Row(2, "a", "Red", winner), Row(2, "c", "Red", winner)>>
    ELSE <<Row(2, "c", "Red", winner), Row(2, "b", "Spectator", winner),
           Row(2, "a", "Blue", winner)>>

\* the rows of match 3: b against a and c
RowsOfThird(winner) ==
    <<Row(3, "b", "Red", winner), Row(3, "a", "Blue", winner),
      Row(3, "c", "Blue", winner)>>

\* the input files: the three matches in the order of their ids, the last
\* match first, or matches 2 and 1 only
InputFiles ==
    UNION {{RowsOfFirst(w1) \o RowsOfSecond(w2, oneSided) \o RowsOfThird(w3),
            RowsOfThird(w3) \o RowsOfFirst(w1) \o RowsOfSecond(w2, oneSided),
            RowsOfSecond(w2, oneSided) \o RowsOfFirst(w1)} :
           w1 \in WinnerColumn, w2 \in WinnerColumn, w3 \in {"Red", "Draw", "Unknown"},
           oneSided \in BOOLEAN}

\* group by match: std::map<int, MatchData> matches filled row by row,
\* spectators left out
GroupByMatch(rows) ==
    LET playing == SelectSeq(rows, LAMBDA row : row.team \in {"Red", "Blue"})
        ids == {playing[k].matchId : k \in 1..Len(playing)}
    IN  [id \in ids |->
            LET own == SelectSeq(playing, LAMBDA row : row.matchId = id)
            IN  [matchId |-> id,
                 players |-> [k \in 1..Len(own) |->
                                 [playerId |-> own[k].playerId, team |-> own[k].team]],
                 winner |-> own[Len(own)].winner]]

\* the match the range-for over the map comes to next: the smallest key
\* not visited yet
NextMatchId(matches, visited) ==
    CHOOSE id \in DOMAIN matches \ visited :
        \A other \in DOMAIN matches \ visited : id <= other

\* the player ids of a match
PlayersOf(data) == {data.players[k].playerId : k \in 1..Len(data.players)}

\* the ratings a MatchResult holds for the players of the match
RatingsHeld(data, result) ==
    [id \in PlayersOf(data) |->
        RatingAfter(data, result,
                    CHOOSE k \in 1..Len(data.players) : data.players[k].playerId = id)]

\* std::map<std::string, PlayerRating> with no entry
NoRatings ==
    [id \in {} |-> PlayerRating(kDefaultRating, kDefaultRD, kDefaultVolatility)]

InitBatch ==
    /\ batch = [pc |-> "start",
                matches |-> GroupByMatch(<<>>),
                visited |-> {},
                playerRatings |-> NoRatings,
                processedCount |-> 0]
    /\ batchLog = <<>>

\* the input file is read and grouped
LoadMatches ==
    /\ batch.pc = "start"
    /\ \E rows \in InputFiles :
           batch' = [batch EXCEPT !.pc = "loop", !.matches = GroupByMatch(rows)]
    /\ UNCHANGED batchLog

\* the loop comes to a match whose winner is none of Draw, Red and Blue
SkipUnknownWinner ==
    /\ batch.pc = "loop"
    /\ DOMAIN batch.matches # batch.visited
    /\ LET id == NextMatchId(batch.matches, batch.visited)
           data == batch.matches[id]
       IN  /\ data.winner \notin Winners
           /\ batch' = [batch EXCEPT !.visited = @ \cup {id}]
           /\ batchLog' = Append(batchLog,
                                 [matchId |-> id, outcome |-> "unknown winner",
                                  players |-> PlayersOf(data),
                                  fed |-> NoRatings, emitted |-> NoRatings,
                                  before |-> batch.playerRatings,
                                  after |-> batch.playerRatings])

\* the loop comes to a match with a known winner and nobody on one team:
\* the ratings of its players were looked up before the teams are tested
SkipInvalidTeams ==
    /\ batch.pc = "loop"
    /\ DOMAIN batch.matches # batch.visited
    /\ LET id == NextMatchId(batch.matches, batch.visited)
           data == batch.matches[id]
           created == GetOrCreate(batch.playerRatings, data)
           result == BuildMatchResult(created, data)
       IN  /\ data.winner \in Winners
           /\ result.teamA = <<>> \/ result.teamB = <<>>
           /\ batch' = [batch EXCEPT !.visited = @ \cup {id}, !.playerRatings = created]
           /\ batchLog' = Append(batchLog,
                                 [matchId |-> id, outcome |-> "invalid teams",
                                  players |-> PlayersOf(data),
                                  fed |-> NoRatings, emitted |-> NoRatings,
                                  before |-> batch.playerRatings,
                                  after |-> created])

\* the loop comes to a match it processes: look up, ProcessMatch, store
ProcessNextMatch ==
    /\ batch.pc = "loop"
    /\ DOMAIN batch.matches # batch.visited
    /\ LET id == NextMatchId(batch.matches, batch.visited)
           data == batch.matches[id]
           created == GetOrCreate(batch.playerRatings, data)
           result == BuildMatchResult(created, data)
       IN  /\ data.winner \in Winners
           /\ result.teamA # <<>>
           /\ result.teamB # <<>>
           /\ \E processed \in {ProcessMatch(result)} :
                  /\ batch' = [batch EXCEPT
                                  !.visited = @ \cup {id},
                                  !.playerRatings = WriteBack(created, data, processed),
                                  !.processedCount = @ + 1]
                  /\ batchLog' = Append(batchLog,
                                        [matchId |-> id, outcome |-> "processed",
                                         players |-> PlayersOf(data),
                                         fed |-> RatingsHeld(data, result),
                                         emitted |-> RatingsHeld(data, processed),
                                         before |-> batch.playerRatings,
                                         after |-> WriteBack(created, data, processed)])

\* the loop has visited every match
CloseOutput ==
    /\ batch.pc = "loop"
    /\ DOMAIN batch.matches = batch.visited
    /\ batch' = [batch EXCEPT !.pc = "done"]
    /\ UNCHANGED batchLog

NextBatch ==
    (LoadMatches \/ SkipUnknownWinner \/ SkipInvalidTeams \/ ProcessNextMatch
         \/ CloseOutput)
        /\ UNCHANGED <<balancerVars, matchVars, scalingVars, decayVars, storeVars,
                       trackVars, finderVars, scaleVars, roundVars>>

Init ==
    /\ InitBalancer /\ InitMatch /\ InitScaling /\ InitDecay /\ InitStore /\ InitTrack
    /\ InitFinder /\ InitScale /\ InitRound /\ InitBatch

Next ==
    NextBalancer \/ NextMatch \/ NextScaling \/ NextDecay \/ NextStore \/ NextTrack
        \/ NextFinder \/ NextScale \/ NextRound \/ NextBatch

Spec == Init /\ [][Next]_vars

SpecBalancer == Init /\ [][NextBalancer]_vars

SpecMatch == Init /\ [][NextMatch]_vars

SpecScaling == Init /\ [][NextScaling]_vars

SpecDecay == Init /\ [][NextDecay]_vars

SpecStore == Init /\ [][NextStore]_vars

SpecTrack == Init /\ [][NextTrack]_vars

SpecFinder == Init /\ [][NextFinder]_vars

SpecScale == Init /\ [][NextScale]_vars

SpecRound == Init /\ [][NextRound]_vars

SpecBatch == Init /\ [][NextBatch]_vars

\* a caller inside UpdateVolatility keeps running: it is owed its next step
SpecFinderFair == SpecFinder /\ WF_vars(NextFinder)


(***************************************************************************)
(* Properties of BalanceTeams, checked under SpecBalancer.                 *)
(***************************************************************************)
\* the elements of a sequence
Range(seq) == {seq[k] : k \in 1..Len(seq)}

PoolIds == {players[k].playerId : k \in 1..Len(players)}

\* BalanceTeams has returned for a pool of at least two players
Balanced == balancerCalls > 0 /\ Len(players) >= 2

\* the two id lists are disjoint, cover the pool and name every id once
IsPartition(assignment) ==
    /\ Range(assignment.team0PlayerIds) \cap Range(assignment.team1PlayerIds) = {}
    /\ Range(assignment.team0PlayerIds) \cup Range(assignment.team1PlayerIds) = PoolIds
    /\ Len(assignment.team0PlayerIds) + Len(assignment.team1PlayerIds) = Len(players)

\* C1 as stated: for every pool of at least two players and every config,
\* whatever its maxCombinationsToTry, the returned teams are disjoint, their
\* union is the set of pool ids and every id appears once.
C1_PartitionAnyBudget == Balanced => IsPartition(bestAssignment)

\* C1 amended: for every pool of at least two players and every config with
\* maxCombinationsToTry >= 1, the returned teams are disjoint, their union is
\* the set of pool ids and every id appears once.
C1_Partition ==
    (Balanced /\ config.maxCombinationsToTry >= 1) => IsPartition(bestAssignment)

\* a pool of seven was split three against four within a budget of three
C1_Witness ==
    /\ Balanced
    /\ Len(players) = 7
    /\ config.maxCombinationsToTry = 3
    /\ Len(bestAssignment.team0PlayerIds) = 3
    /\ Len(bestAssignment.team1PlayerIds) = 4

\* the ids of the two players with the highest effective rating
TopTwoIds == LET sorted == SortedPlayers(players)
             IN  <<sorted[1].playerId, sorted[2].playerId>>

OnOppositeTeams(assignment, ids) ==
    \/ /\ ids[1] \in Range(assignment.team0PlayerIds)
       /\ ids[2] \in Range(assignment.team1PlayerIds)
    \/ /\ ids[1] \in Range(assignment.team1PlayerIds)
       /\ ids[2] \in Range(assignment.team0PlayerIds)

\* C2 as stated: with separateTopPlayers, for every pool of at least two
\* players and every value of the other config fields, the two players with
\* the highest effective rating are on opposite teams of the returned
\* assignment.
C2_TopTwoApartAnyBudget ==
    (Balanced /\ config.separateTopPlayers) => OnOppositeTeams(bestAssignment, TopTwoIds)

\* C2 amended: with separateTopPlayers and maxCombinationsToTry >= 1, for
\* every pool of at least two players the two players with the highest
\* effective rating are on opposite teams of the returned assignment.
C2_TopTwoApart ==
    (Balanced /\ config.separateTopPlayers /\ config.maxCombinationsToTry >= 1)
        => OnOppositeTeams(bestAssignment, TopTwoIds)

\* an even pool balanced with separateTopPlayers after a full search in which
\* some counted candidate left both top players out of team 0
C2_Witness ==
    /\ Balanced
    /\ config.separateTopPlayers
    /\ Len(players) = 6
    /\ combinationsTried < config.maxCombinationsToTry
    /\ \E k \in 1..Len(examined) : Range(examined[k]) \cap {0, 1} = {}
    /\ OnOppositeTeams(bestAssignment, TopTwoIds)

\* the elements of a set of indices as an ascending sequence
RECURSIVE Ascending(_, _, _)
Ascending(indices, n, i) ==
    IF i >= n THEN <<>>
    ELSE IF i \in indices THEN <<i>> \o Ascending(indices, n, i + 1)
         ELSE Ascending(indices, n, i + 1)

\* the objective J of the split of the sorted pool into team0Indices and the
\* rest, with the lambda of the config
ObjectiveOf(sorted, team0Indices, lambda) ==
    EvaluateAssignment(sorted, team0Indices, Complement(Len(sorted), team0Indices, 0),
                       lambda).objectiveValue

\* the sides of floor(N/2) players (indices into the sorted pool) whose split
\* honors the constraints the config enables
HonoringSides(n, cfg) ==
    {side \in SUBSET (0..(n - 1)) :
        /\ Cardinality(side) = n \div 2
        /\ cfg.separateTopPlayers => Cardinality(side \cap {0, 1}) = 1
        /\ (cfg.putTopPlayerInSmallerTeam /\ n % 2 # 0) => 0 \in side}

\* the search of the last call was not cut short by the budget
SearchCompleted == combinationsTried < config.maxCombinationsToTry

\* C3: for every pool of N <= 8 players and every config whose budget covers
\* all combinations, the objectiveValue of the returned assignment equals
\* the minimum of J, computed with the configured lambda, over all splits
\* into floor(N/2) and ceil(N/2) players that honor the enabled constraints.
C3_ObjectiveIsMinimum ==
    (Balanced /\ Len(players) <= 8 /\ SearchCompleted) =>
        LET sorted == SortedPlayers(players)
            objectives == {ObjectiveOf(sorted, Ascending(side, Len(sorted), 0),
                                       config.lambda) :
                              side \in HonoringSides(Len(sorted), config)}
        IN  /\ bestAssignment.objectiveValue \in objectives
            /\ \A J \in objectives : bestAssignment.objectiveValue <= J

\* the candidates the search counted that honor the top-player constraint
ValidExamined ==
    {k \in 1..Len(examined) :
        config.separateTopPlayers => Cardinality(Range(examined[k]) \cap {0, 1}) = 1}

\* C4: a call never examines more than maxCombinationsToTry complete
\* candidates, and when it stops because the budget is exhausted the
\* assignment it returns is one of lowest objective among the candidates
\* examined up to that point.
C4_BestOfExamined ==
    Balanced =>
        /\ Len(examined) <= Max(config.maxCombinationsToTry, 0)
        /\ (~SearchCompleted /\ ValidExamined # {}) =>
               LET sorted == SortedPlayers(players)
               IN  \E k \in ValidExamined :
                       /\ IdsAt(sorted, examined[k]) = bestAssignment.team0PlayerIds
                       /\ \A j \in ValidExamined :
                              ObjectiveOf(sorted, examined[k], config.lambda)
                                  <= ObjectiveOf(sorted, examined[j], config.lambda)

\* the raw-rating gap of a split: |avg(R_0) - avg(R_1)|
RawRatingGap(sorted, team0Indices) ==
    CreateAssignment(sorted, team0Indices).pureRatingDifference

\* C14: no examined candidate that honors the constraints has the same
\* objective as the returned assignment and a strictly smaller raw-rating
\* gap.
C14_TieBreakByRawGap ==
    (Balanced /\ config.maxCombinationsToTry >= 1) =>
        LET sorted == SortedPlayers(players)
        IN  \A k \in ValidExamined :
                IdsAt(sorted, examined[k]) = bestAssignment.team0PlayerIds =>
                    \A j \in ValidExamined :
                        ~(/\ ObjectiveOf(sorted, examined[j], config.lambda)
                                 = ObjectiveOf(sorted, examined[k], config.lambda)
                          /\ RawRatingGap(sorted, examined[j])
                                 < RawRatingGap(sorted, examined[k]))

\* C15: the objectiveValue of a returned assignment is its own
\* strengthDifference plus the caller's config.lambda times its own
\* uncertaintyDifference, whatever lambda the caller passes.
C15_ObjectiveUnderCallerLambda ==
    (Balanced /\ bestAssignment.team0PlayerIds # <<>>) =>
        bestAssignment.objectiveValue =
            bestAssignment.strengthDifference
                + Mul(config.lambda, bestAssignment.uncertaintyDifference)

\* C5: a result returned because the cap was reached before the whole space
\* was explored can be told from the result of a completed search.  Two
\* calls on the same pool, the first cut short and the second completed
\* after counting more candidates, must not return the same TeamAssignment.
C5_ExhaustionReported ==
    (balancerCalls = 2 /\ Len(players) >= 2
        /\ previousCall.combinationsTried >= previousCall.config.maxCombinationsToTry
        /\ SearchCompleted
        /\ previousCall.combinationsTried < combinationsTried)
        => previousCall.bestAssignment # bestAssignment

\* C6: a pool of fewer than two players is rejected; what BalanceTeams
\* returns cannot be taken for a balanced result.  The returned
\* TeamAssignment is all the caller gets, and objectiveValue = 0 with no
\* strength or uncertainty difference is what a perfect balance reports.
C6_SmallPoolRejected ==
    (balancerCalls > 0 /\ Len(players) < 2) =>
        ~(/\ bestAssignment.objectiveValue = 0
          /\ bestAssignment.strengthDifference = 0
          /\ bestAssignment.uncertaintyDifference = 0)

\* C12 as stated: for every odd pool of at least three players balanced
\* with putTopPlayerInSmallerTeam, the player with the highest effective
\* rating is in team 0, the team of floor(N/2) players.
C12_TopInSmallerTeamAnyBudget ==
    (Balanced /\ Len(players) % 2 = 1 /\ config.putTopPlayerInSmallerTeam) =>
        /\ TopTwoIds[1] \in Range(bestAssignment.team0PlayerIds)
        /\ Len(bestAssignment.team0PlayerIds) = Len(players) \div 2

\* C12 amended: for every odd pool of at least three players balanced with
\* putTopPlayerInSmallerTeam and maxCombinationsToTry >= 1, the player with
\* the highest effective rating is in team 0, the team of floor(N/2) players.
C12_TopInSmallerTeam ==
    (Balanced /\ Len(players) % 2 = 1 /\ config.putTopPlayerInSmallerTeam
        /\ config.maxCombinationsToTry >= 1) =>
        /\ TopTwoIds[1] \in Range(bestAssignment.team0PlayerIds)
        /\ Len(bestAssignment.team0PlayerIds) = Len(players) \div 2

\* a pool of five went through a full search with the flag set and without
\* the top-two constraint, and the top player is in the team of two
C12_Witness ==
    /\ Balanced
    /\ Len(players) = 5
    /\ config.putTopPlayerInSmallerTeam
    /\ ~config.separateTopPlayers
    /\ SearchCompleted
    /\ Len(examined) > 1
    /\ TopTwoIds[1] \in Range(bestAssignment.team0PlayerIds)
    /\ Len(bestAssignment.team0PlayerIds) = 2

\* C13 as stated: for every pool of N >= 2 players the returned assignment
\* has floor(N/2) ids in team 0 and ceil(N/2) ids in team 1.
C13_TeamSizesAnyBudget ==
    Balanced =>
        /\ Len(bestAssignment.team0PlayerIds) = Len(players) \div 2
        /\ Len(bestAssignment.team1PlayerIds) = Len(players) - Len(players) \div 2

\* C13 amended: for every pool of N >= 2 players and maxCombinationsToTry
\* >= 1 the returned assignment has floor(N/2) ids in team 0 and ceil(N/2)
\* ids in team 1.
C13_TeamSizes ==
    (Balanced /\ config.maxCombinationsToTry >= 1) =>
        /\ Len(bestAssignment.team0PlayerIds) = Len(players) \div 2
        /\ Len(bestAssignment.team1PlayerIds) = Len(players) - Len(players) \div 2

\* an odd pool without the placement flag was split three against four
C13_Witness ==
    /\ Balanced
    /\ Len(players) = 7
    /\ ~config.putTopPlayerInSmallerTeam
    /\ config.maxCombinationsToTry >= 1
    /\ Len(bestAssignment.team0PlayerIds) = 3
    /\ Len(bestAssignment.team1PlayerIds) = 4

(***************************************************************************)
(* Properties of ProcessMatch, checked under SpecMatch.                    *)
(***************************************************************************)
\* ProcessMatch has returned
Processed == matchCalls > 0

BothRostersFilled == Len(preMatch.teamA) > 0 /\ Len(preMatch.teamB) > 0

\* C7: a match with an empty roster on either side is rejected before any
\* processing: no participant's rating state is changed, the empty side is
\* not treated as a (0, 0) opponent.
C7_EmptyRosterRejected ==
    (Processed /\ ~BothRostersFilled) => match = preMatch

TeamAWon == preMatch.scoreA = kWinScore /\ preMatch.scoreB = kLossScore

C10_DeviationNeverGrows ==
    (Processed /\ BothRostersFilled) =>
        /\ \A i \in 1..Len(match.teamA) :
               GetRD(match.teamA[i].rating) <= GetRD(preMatch.teamA[i].rating)
        /\ \A i \in 1..Len(match.teamB) :
               GetRD(match.teamB[i].rating) <= GetRD(preMatch.teamB[i].rating)

\* the z-scores ProcessMatch computed for a roster
ZScoresOf(team) == ComputeZScores(PerformanceOf(team))

\* the participant as the match leaves them carries the record that
\* UpdateRecentPerformance makes of the record they came with
RecordUpdated(before, after, zScore) ==
    LET blended == UpdateRecentPerformance(before.rating, zScore, kPerfTargetWindow)
    IN  /\ after.rating.perfGames = before.rating.perfGames + 1
        /\ after.rating.perfIndexEMA = blended.perfIndexEMA

\* C16: a processed match leaves every participant with a recent-performance
\* record of one game more than they came with and an EMA blended from the
\* EMA they came with and their z-score of the match.
C16_RecentPerformanceUpdated ==
    (Processed /\ BothRostersFilled) =>
        /\ \A i \in 1..Len(match.teamA) :
               RecordUpdated(preMatch.teamA[i], match.teamA[i],
                             ZScoresOf(preMatch.teamA)[i])
        /\ \A i \in 1..Len(match.teamB) :
               RecordUpdated(preMatch.teamB[i], match.teamB[i],
                             ZScoresOf(preMatch.teamB)[i])

\* the change of the rating, in centi-points, of participant i
RatingChange(before, after, i) ==
    GetRating(after[i].rating) - GetRating(before[i].rating)

\* the change of participant i's mean is as large as the clamp lets it be
ClampHit(before, after, i) ==
    Abs(after[i].rating.mu - before[i].rating.mu) >= kMaxRatingChange

\* teammates i, j who came with the same rating state, i with the higher
\* performance score
BetterPerformer(before, i, j) ==
    /\ before[i].rating = before[j].rating
    /\ before[i].performanceScore > before[j].performanceScore

\* a roster whose first two players are such teammates
HasBetterPerformer(before) == Len(before) = 2 /\ BetterPerformer(before, 1, 2)

\* the scaling factor of participant i, whose mean moves in the direction
\* of sign, is cut off at kScaleMin or kScaleMax
FactorClamped(before, i, sign) ==
    LET f == FP + Mul(kBeta, sign * ZScoresOf(before)[i])
    IN  f <= kScaleMin \/ f >= kScaleMax

\* nothing cuts off the gain of participant i on a win
GainUncut(before, after, i) == ~ClampHit(before, after, i)

GainUnscaledUncut(before, after, i) ==
    ~ClampHit(before, after, i) /\ ~FactorClamped(before, i, 1)

\* on a win the better performer gains strictly more than the other
StrictlyMore(before, after, i, j) ==
    RatingChange(before, after, i) > RatingChange(before, after, j)

BetterPerformerNotWorse(before, after, score) ==
    \A i \in 1..Len(before) : \A j \in 1..Len(before) :
        BetterPerformer(before, i, j) =>
            /\ score = kWinScore =>
                   RatingChange(before, after, i) >= RatingChange(before, after, j)
            /\ score = kLossScore =>
                   -RatingChange(before, after, i) <= -RatingChange(before, after, j)

UnclampedMean(team, opponents, score, i) ==
    LET stats == ComputeTeamStats(RatingsOf(opponents))
    IN  ScaledUpdate(team[i].rating, stats.mu, stats.phi, score,
                     ZScoresOf(team)[i]).muScaled

\* the change of participant i's mean is within kMaxRatingChange, and is the
\* unclamped change when that is within kMaxRatingChange
ChangeClamped(before, after, opponents, score, i) ==
    LET mu == before[i].rating.mu
        muPrime == after[i].rating.mu
        muScaled == UnclampedMean(before, opponents, score, i)
    IN  /\ Abs(muPrime - mu) <= kMaxRatingChange
        /\ Abs(muScaled - mu) <= kMaxRatingChange => muPrime = muScaled

\* C19: with the clamp enabled, every participant of every processed match
\* has |mu' - mu| <= kMaxRatingChange, and a change the scaled update
\* already keeps within that bound is the change the participant gets.
C19_ChangeWithinClamp ==
    (kEnableRatingClamp /\ Processed) =>
        /\ \A i \in 1..Len(match.teamA) :
               ChangeClamped(preMatch.teamA, match.teamA, preMatch.teamB,
                             preMatch.scoreA, i)
        /\ \A i \in 1..Len(match.teamB) :
               ChangeClamped(preMatch.teamB, match.teamB, preMatch.teamA,
                             preMatch.scoreB, i)

\* a match whose first team A player would gain more than kMaxRatingChange
\* and gains exactly that, and whose first team B player loses less than
\* that and loses what the scaled update says
C19_Witness ==
    /\ Processed
    /\ BothRostersFilled
    /\ UnclampedMean(preMatch.teamA, preMatch.teamB, preMatch.scoreA, 1)
           > preMatch.teamA[1].rating.mu + kMaxRatingChange
    /\ match.teamA[1].rating.mu = preMatch.teamA[1].rating.mu + kMaxRatingChange
    /\ match.teamB[1].rating.mu < preMatch.teamB[1].rating.mu
    /\ match.teamB[1].rating.mu
           = UnclampedMean(preMatch.teamB, preMatch.teamA, preMatch.scoreB, 1)

(***************************************************************************)
(* Properties of DecayForInactivity, checked under SpecDecay.              *)
(***************************************************************************)
\* C20: DecayForInactivity leaves the rating as it was when
\* roundsInPastDays >= minRoundsForActivity, whatever deltaDays is, and in
\* every case leaves mu, sigma, perfIndexEMA and perfGames as they were.
C20_DecayFrame ==
    /\ decayArgs.roundsInPastDays >= decayArgs.minRoundsForActivity =>
           decayed = decayArgs.rating
    /\ decayed.mu = decayArgs.rating.mu
    /\ decayed.sigma = decayArgs.rating.sigma
    /\ decayed.perfIndexEMA = decayArgs.rating.perfIndexEMA
    /\ decayed.perfGames = decayArgs.rating.perfGames

\* an inactive player with a recent-performance record whose deviation the
\* decay widened
C20_Witness ==
    /\ decayArgs.roundsInPastDays < decayArgs.minRoundsForActivity
    /\ decayArgs.rating.perfGames > 0
    /\ decayArgs.rating.perfIndexEMA # 0
    /\ decayed.phi > decayArgs.rating.phi
    /\ decayed.phi < MaxPhi

\* the rating a second call with the same arguments leaves
DecayedAgain ==
    DecayForInactivity(decayed, decayArgs.roundsInPastDays, decayArgs.deltaDays,
                       decayArgs.minRoundsForActivity, decayArgs.daysPerPeriod)

\* C21: the deviation DecayForInactivity leaves is at least the deviation it
\* found and at most the larger of that deviation and kMaxRD / kScale, and
\* a deviation that has reached the cap is left where it is by further decay.
C21_DecayOnlyWidens ==
    /\ decayed.phi >= decayArgs.rating.phi
    /\ decayed.phi <= Max(decayArgs.rating.phi, MaxPhi)
    /\ decayed.phi >= MaxPhi => DecayedAgain.phi = decayed.phi

(***************************************************************************)
(* Properties of UpdateRecentPerformance, checked under SpecTrack.         *)
(***************************************************************************)
Clipped(z) == Max(-kMaxPerfZScore, Min(z, kMaxPerfZScore))

RECURSIVE ClippedSum(_)
ClippedSum(calls) ==
    IF calls = <<>> THEN 0
    ELSE Clipped(calls[Len(calls)].matchPerfIndex)
             + ClippedSum(SubSeq(calls, 1, Len(calls) - 1))

\* every call so far was made with the window w
SameWindow(w) == \A k \in 1..Len(observed) : observed[k].targetWindow = w

\* the EMA is the mean of the clipped z-scores, to the last digit the
\* arithmetic keeps for each blend
IsRunningMean ==
    Abs(tracked.perfIndexEMA * Len(observed) - ClippedSum(observed))
        <= Len(observed) * Len(observed)

\* C22: a call of UpdateRecentPerformance raises perfGames by exactly one;
\* the first call leaves the clipped z-score as perfIndexEMA; and while
\* perfGames is below the targetWindow all calls were made with,
\* perfIndexEMA is the mean of the clipped z-scores of all calls so far.
C22_RunningMeanBelowWindow ==
    [][ /\ tracked'.perfGames = tracked.perfGames + 1
        /\ tracked.perfGames = 0 =>
               tracked'.perfIndexEMA = Clipped(observed'[1].matchPerfIndex)
        /\ \A w \in TargetWindows :
               (SameWindow(w)' /\ tracked'.perfGames * FP < w) => IsRunningMean'
      ]_trackVars

\* three calls with the default window and different z-scores, one of them
\* clipped: perfIndexEMA is their mean, which is none of them
C22_Witness ==
    /\ Len(observed) = 3
    /\ SameWindow(kPerfTargetWindow)
    /\ observed[1].matchPerfIndex = FP
    /\ observed[2].matchPerfIndex = 2 * FP
    /\ observed[3].matchPerfIndex = 4 * FP
    /\ tracked.perfGames = 3
    /\ tracked.perfIndexEMA = 2 * FP

(***************************************************************************)
(* Properties of two callers sharing a player, checked under SpecStore.    *)
(***************************************************************************)
BothDone == \A q \in Callers : requests[q].pc = "done"

\* both callers read before either wrote
BothReadFirst == BothDone /\ storeLog[1][1] = "read" /\ storeLog[2][1] = "read"

\* one caller read and wrote before the other read
Serialized == BothDone /\ storeLog[1][1] = "read" /\ storeLog[2][1] = "write"

FirstWriter == IF storeLog[2][1] = "write" THEN storeLog[2][2] ELSE storeLog[3][2]

LastWriter == storeLog[4][2]

NewPlayer == PlayerRating(kDefaultRating, kDefaultRD, kDefaultVolatility)

\* the rating caller q's match leaves the shared player with when the
\* shared player enters it with the given rating and the opponent is new
SharedAfter(q, rating) ==
    ProcessMatch([teamA |-> <<MatchPlayer(rating, MinPerformanceScore)>>,
                  teamB |-> <<MatchPlayer(NewPlayer, MinPerformanceScore)>>,
                  scoreA |-> ScoresOf(requests[q].data.winner)[1],
                  scoreB |-> ScoresOf(requests[q].data.winner)[2]]).teamA[1].rating

\* C17: when both callers read the shared player's rating before either
\* stores its result, the stored rating is that of the match stored last
\* alone, not of both; when one caller reads and stores before the other
\* reads, the stored rating is that of both matches applied in that order.
C17_LostUpdateUnlessSerialized ==
    BothDone =>
        /\ BothReadFirst =>
               /\ playerRatings[SharedPlayer] = SharedAfter(LastWriter, NewPlayer)
               /\ playerRatings[SharedPlayer]
                      # SharedAfter(LastWriter, SharedAfter(FirstWriter, NewPlayer))
        /\ Serialized =>
               playerRatings[SharedPlayer]
                   = SharedAfter(LastWriter, SharedAfter(FirstWriter, NewPlayer))

\* both callers read first, caller 1 stored a win of the shared player and
\* caller 2 then stored a loss: the stored rating is below the new player's
C17_Witness ==
    /\ BothReadFirst
    /\ FirstWriter = 1
    /\ LastWriter = 2
    /\ requests[1].data.winner = "Red"
    /\ requests[2].data.winner = "Blue"
    /\ GetRating(playerRatings[SharedPlayer]) < GetRating(NewPlayer)

(***************************************************************************)
(* Properties of ComputeScalingFactor, checked under SpecScaling.          *)
(***************************************************************************)
\* C9: with fMin <= 1 <= fMax, the factor is >= 1 for z > 0 on a positive
\* pending change and <= 1 for z > 0 on a negative one; for z < 0 it is
\* <= 1 on a positive pending change and >= 1 on a negative one.
C9_SignAware ==
    (scalingArgs.fMin <= FP /\ FP <= scalingArgs.fMax) =>
        /\ (scalingArgs.zScore > 0 /\ scalingArgs.deltaMu > 0) => scalingFactor >= FP
        /\ (scalingArgs.zScore > 0 /\ scalingArgs.deltaMu < 0) => scalingFactor <= FP
        /\ (scalingArgs.zScore < 0 /\ scalingArgs.deltaMu > 0) => scalingFactor <= FP
        /\ (scalingArgs.zScore < 0 /\ scalingArgs.deltaMu < 0) => scalingFactor >= FP

\* a good performer on the losing side had the loss scaled down, short of
\* the lower clamp
C9_Witness ==
    /\ scalingArgs.zScore > 0
    /\ scalingArgs.deltaMu < 0
    /\ scalingArgs.fMin < scalingFactor
    /\ scalingFactor < FP
    /\ FP <= scalingArgs.fMax

(***************************************************************************)
(* Termination of UpdateVolatility, checked under SpecFinderFair.          *)
(***************************************************************************)
FinderRunning == finder.pc \in {"bracket", "illinois"}

\* C23: a call of UpdateVolatility with variance > 0 and volatility > 0
\* leaves both of its loops and returns.
C23_RootFinderTerminates == FinderRunning ~> (finder.pc = "done")

(***************************************************************************)
(* Properties of the scale conversion, checked under SpecScale.            *)
(***************************************************************************)
\* C24: after the constructor, SetRating or SetRD, GetRating and GetRD give
\* back the public rating and deviation the caller handed in.
C24_ScaleRoundTrip ==
    published.by # "none" =>
        /\ GetRating(rated) = published.rating
        /\ GetRD(rated) = published.rd

\* a rating built far from the defaults and then given another deviation
\* through SetRD
C24_Witness ==
    /\ published.by = "SetRD"
    /\ published.rating = 3133 * RP + 70
    /\ published.rd = 58 * RP + 25
    /\ rated.mu # 0
    /\ rated.phi # PlayerRating(kDefaultRating, kDefaultRD, kDefaultVolatility).phi

(***************************************************************************)
(* The direction of the scaled change, checked under SpecMatch.            *)
(***************************************************************************)
Sign(x) == IF x > 0 THEN 1 ELSE IF x < 0 THEN -1 ELSE 0

\* the mean the standard update gives participant i, before any scaling
UnscaledMean(team, opponents, score, i) ==
    LET stats == ComputeTeamStats(RatingsOf(opponents))
    IN  ScaledUpdate(team[i].rating, stats.mu, stats.phi, score,
                     ZScoresOf(team)[i]).muStar

\* the mean of participant i moved the way the standard update points, and
\* stayed where it was when the standard update leaves it there
SameDirection(before, after, opponents, score, i) ==
    Sign(after[i].rating.mu - before[i].rating.mu)
        = Sign(UnscaledMean(before, opponents, score, i) - before[i].rating.mu)

WithPerformance(team, scores) ==
    [i \in 1..Len(team) |-> [team[i] EXCEPT !.performanceScore = scores[i]]]

\* other performance scores the roster could have come with: all alike, and
\* rising through the roster
OtherPerformances(team) ==
    {[i \in 1..Len(team) |-> 0], [i \in 1..Len(team) |-> i * HalfFP]}

\* the match as ProcessMatch leaves it when team A, or team B, comes with
\* other performance scores
WithOtherTeamA(m, scores) ==
    ProcessMatch([m EXCEPT !.teamA = WithPerformance(m.teamA, scores)])

WithOtherTeamB(m, scores) ==
    ProcessMatch([m EXCEPT !.teamB = WithPerformance(m.teamB, scores)])

\* C26: a match that differs from the processed one only in the performance
\* scores of team B leaves every team A player with the same rating state,
\* and one that differs only in the scores of team A leaves every team B
\* player with the same rating state.
C26_ZScoresTeamLocal ==
    Processed =>
        /\ \A scores \in OtherPerformances(preMatch.teamB) :
               RatingsOf(WithOtherTeamB(preMatch, scores).teamA) = RatingsOf(match.teamA)
        /\ \A scores \in OtherPerformances(preMatch.teamA) :
               RatingsOf(WithOtherTeamA(preMatch, scores).teamB) = RatingsOf(match.teamB)

\* two players a side, team A with unlike scores, the first player of team
\* B ahead of the second; with the second ahead of the first the team B
\* players end elsewhere, the team A players do not
C26_Witness ==
    /\ Processed
    /\ Len(preMatch.teamA) = 2
    /\ Len(preMatch.teamB) = 2
    /\ ZScoresOf(preMatch.teamA)[1] # 0
    /\ preMatch.teamB[1].performanceScore > preMatch.teamB[2].performanceScore
    /\ LET scores == [i \in 1..2 |-> i * HalfFP]
       IN  /\ RatingsOf(WithOtherTeamB(preMatch, scores).teamB) # RatingsOf(match.teamB)
           /\ RatingsOf(WithOtherTeamB(preMatch, scores).teamA) = RatingsOf(match.teamA)

(***************************************************************************)
(* The candidates a complete search counts, checked under SpecBalancer.    *)
(***************************************************************************)
\* the binomial coefficient C(n, k)
RECURSIVE Choose(_, _)
Choose(n, k) ==
    IF k < 0 \/ k > n THEN 0
    ELSE IF k = 0 THEN 1
    ELSE (Choose(n - 1, k - 1) * n) \div k

\* the budget the BalancerConfig comment gives for a pool of n players
TopTwoBudget(n) == Choose(n - 2, n \div 2 - 1)

\* an even pool searched with separateTopPlayers under a budget the search
\* did not use up
CompleteTopTwoSearch ==
    /\ balancerCalls > 0
    /\ Len(players) >= 2
    /\ Len(players) % 2 = 0
    /\ config.separateTopPlayers
    /\ combinationsTried < config.maxCombinationsToTry

\* the players of a candidate, and those it leaves to the other team
TeamOfCandidate(candidate) == {candidate[k] : k \in 1..Len(candidate)}

OtherTeamOfCandidate(candidate) == (0..(Len(players) - 1)) \ TeamOfCandidate(candidate)

\* a candidate that keeps the top two players apart
TopTwoApart(candidate) == (0 \in TeamOfCandidate(candidate)) # (1 \in TeamOfCandidate(candidate))

\* the search under the budget of the BalancerConfig comment examines every
\* split that keeps the top two apart, from one side or the other
TopTwoBudgetSuffices ==
    LET run == RunSearch(players, [config EXCEPT !.maxCombinationsToTry =
                                                     TopTwoBudget(Len(players))])
        seen == {TeamOfCandidate(run.examined[k]) : k \in 1..Len(run.examined)}
    IN  \A k \in 1..Len(examined) :
            TopTwoApart(examined[k]) =>
                \/ TeamOfCandidate(examined[k]) \in seen
                \/ OtherTeamOfCandidate(examined[k]) \in seen

\* C27: with separateTopPlayers, a complete search over an even pool of N
\* players counts C(N - 2, N / 2 - 1) candidates, and a search under a budget
\* of that size is exhaustive.
C27_TopTwoCount ==
    CompleteTopTwoSearch =>
        /\ combinationsTried = TopTwoBudget(Len(players))
        /\ TopTwoBudgetSuffices

(***************************************************************************)
(* Updates read pre-match state only, checked under SpecMatch.             *)
(***************************************************************************)
\* the match with the two teams, and their scores, exchanged
Exchanged(m) ==
    [m EXCEPT !.teamA = m.teamB, !.teamB = m.teamA,
              !.scoreA = m.scoreB, !.scoreB = m.scoreA]

\* participant i of the team has the rating state the update against the
\* opponents as they came to the match gives
UpdatedAgainstPreMatch(before, after, opponents, score, i) ==
    LET stats == ComputeTeamStats(RatingsOf(opponents))
    IN  after[i].rating
            = UpdatePlayerRating(before[i].rating, stats.mu, stats.phi, score,
                                 ZScoresOf(before)[i])

\* C28: every participant of a processed match is updated against the other
\* team as it was before the call, team B too although team A is
\* overwritten first, and the match handed in with the teams exchanged, so
\* that the other team is updated first, leaves every player the same.
C28_PreMatchStateOnly ==
    Processed =>
        /\ \A i \in 1..Len(match.teamA) :
               UpdatedAgainstPreMatch(preMatch.teamA, match.teamA, preMatch.teamB,
                                      preMatch.scoreA, i)
        /\ \A i \in 1..Len(match.teamB) :
               UpdatedAgainstPreMatch(preMatch.teamB, match.teamB, preMatch.teamA,
                                      preMatch.scoreB, i)
        /\ Exchanged(ProcessMatch(Exchanged(preMatch))) = match

\* a match that moved the aggregate of team A and the ratings of team B
C28_Witness ==
    /\ Processed
    /\ Len(preMatch.teamA) = 2
    /\ Len(preMatch.teamB) = 2
    /\ ComputeTeamStats(RatingsOf(match.teamA))
           # ComputeTeamStats(RatingsOf(preMatch.teamA))
    /\ \A i \in 1..2 : match.teamB[i].rating.mu # preMatch.teamB[i].rating.mu
    /\ Exchanged(ProcessMatch(Exchanged(preMatch))) = match


(***************************************************************************)
(* Properties of UpdateRecentPerformance in the arithmetic of the build,   *)
(* checked under SpecRound.                                                *)
(***************************************************************************)

\* perfIndexEMA of measured lies in [-kMaxPerfZScore, +kMaxPerfZScore]
WithinMaxPerfZScore ==
    /\ ~FlLess(kMaxPerfZScoreDouble, measured.perfIndexEMA)
    /\ ~FlLess(measured.perfIndexEMA, [kMaxPerfZScoreDouble EXCEPT !.m = -@])

\* C29: starting from a fresh rating state, after any sequence of
\* UpdateRecentPerformance calls with any z-scores and targetWindow >= 1,
\* the recent-performance EMA lies within [-kMaxPerfZScore, +kMaxPerfZScore]
\* and the observation count is the number of calls made.
C29_RecentPerformanceBounded ==
    /\ WithinMaxPerfZScore
    /\ measured.perfGames = measuredCalls

\* the part that holds: the observation count is the number of calls
ObservationsCounted == measured.perfGames = measuredCalls


(***************************************************************************)
(* Properties of the batch processor, checked under SpecBatch.             *)
(***************************************************************************)

\* PlayerRating(): the state of a player nobody has stored a rating for
DefaultState == PlayerRating(kDefaultRating, kDefaultRD, kDefaultVolatility)

\* the visits are in ascending match id, and no match left to visit has an
\* id below one already visited
VisitedAscending ==
    /\ \A i \in 1..Len(batchLog), j \in 1..Len(batchLog) :
           i < j => batchLog[i].matchId < batchLog[j].matchId
    /\ batch.visited = {batchLog[i].matchId : i \in 1..Len(batchLog)}
    /\ \A id \in DOMAIN batch.matches \ batch.visited :
           \A seen \in batch.visited : seen < id

\* the earlier visits that processed a match player id took part in
EarlierProcessed(j, id) ==
    {i \in 1..(j - 1) : batchLog[i].outcome = "processed" /\ id \in batchLog[i].players}

\* visit j read for player id what the latest such visit stored for them,
\* or the default state when there is none
FedFromLatest(j, id) ==
    LET earlier == EarlierProcessed(j, id)
    IN  batchLog[j].fed[id] =
            IF earlier = {} THEN DefaultState
            ELSE batchLog[CHOOSE i \in earlier : \A k \in earlier : k <= i].emitted[id]

\* C30: the batch processor visits the matches one at a time in ascending
\* match id; the rating state fed into a match for a player is the state the
\* most recent earlier processed match of that player emitted for them (the
\* default state on first appearance); a match skipped for an unknown winner
\* or an empty team changes no rating stored before it.
C30_BatchFeedsLatestState ==
    /\ VisitedAscending
    /\ \A j \in 1..Len(batchLog) :
           IF batchLog[j].outcome = "processed"
           THEN \A id \in batchLog[j].players : FedFromLatest(j, id)
           ELSE \A id \in DOMAIN batchLog[j].before :
                    /\ id \in DOMAIN batchLog[j].after
                    /\ batchLog[j].after[id] = batchLog[j].before[id]

\* match 1 was processed, match 2 was skipped for its empty team after a
\* rating was created for c, match 3 was processed: a came to match 3 with
\* the state match 1 left, c with the default state
C30_Witness ==
    /\ batch.pc = "done"
    /\ Len(batchLog) = 3
    /\ batchLog[1].outcome = "processed"
    /\ batchLog[2].outcome = "invalid teams"
    /\ "c" \in DOMAIN batchLog[2].after \ DOMAIN batchLog[2].before
    /\ batchLog[3].outcome = "processed"
    /\ batchLog[3].fed["a"] = batchLog[1].emitted["a"]
    /\ batchLog[3].fed["a"] # DefaultState
    /\ batchLog[3].fed["c"] = DefaultState
    /\ batch.processedCount = 2

=============================================================================
